---- MODULE Spec2Model ----
(***************************************************************************)
(* The Chromium LevelDB reader (src/src/lib/leveldb-reader.ts) and the     *)
(* cookie token extraction (src/src/auth/desktop.ts) as state machines.    *)
(*                                                                         *)
(* A Buffer is a sequence of bytes 0..255.  Offsets are 0-based, as in the *)
(* source: the byte at offset i of buf is buf[i + 1].                      *)
(***************************************************************************)
EXTENDS Integers, Sequences, FiniteSets, TLC

VARIABLES
    \* parseDataBlock: its argument, its locals, where it is, passes taken
    pdbBlock, pdbRestartsStart, pdbOffset, pdbPrevKey, pdbEntries, pdbPc, pdbIters,
    \* parseLogBatch: its arguments, its local, where it is, passes taken, and
    \* the kind of the record the last pass met
    plbBatch, plbEntries, plbOffset, plbPc, plbIters, plbLast,
    \* parseLogFile: what the file was built from, the file, the locals, where
    \* it is, and the branch the last pass took
    plfInput, plfFile, plfData, plfOffset, plfPending, plfEntries, plfPc, plfLast,
    \* the directory scanner: what the directory was built from, the
    \* directory, the pattern, and what readChromiumLevelDB and
    \* findKeysContaining returned
    scanInput, scanDir, scanPattern, scanOut, findOut,
    \* decryptChromiumCookieValue: its argument, the bytes the decipher gave,
    \* and what the call came to
    dcEncrypted, dcPlain, dcOut,
    \* parseLogFile as one call: the file it is called on, as the pieces the
    \* file is made of, and what the call came to
    lfcInput, lfcOut,
    \* a call of readVarint and of readVarint64 on one buffer
    rvBuf, rvOffset, rvOut, rv64Out,
    \* a call of extractTeamsFromSlackLevelDb: what it meets, where it is, the
    \* snapshot directory, the outcome of the try block, what the call gave
    etInput, etPc, etSnap, etPending, etOut

pdbVars == <<pdbBlock, pdbRestartsStart, pdbOffset, pdbPrevKey, pdbEntries, pdbPc, pdbIters>>

plbVars == <<plbBatch, plbEntries, plbOffset, plbPc, plbIters, plbLast>>

plfVars == <<plfInput, plfFile, plfData, plfOffset, plfPending, plfEntries, plfPc, plfLast>>

scanVars == <<scanInput, scanDir, scanPattern, scanOut, findOut>>

dcVars == <<dcEncrypted, dcPlain, dcOut>>

lfcVars == <<lfcInput, lfcOut>>
rvVars == <<rvBuf, rvOffset, rvOut, rv64Out>>
etVars == <<etInput, etPc, etSnap, etPending, etOut>>

vars == <<pdbVars, plbVars, plfVars, scanVars, dcVars, lfcVars, rvVars, etVars>>

----------------------------------------------------------------------------
(* Bounds of the model.                                                    *)

\* entries laid out in the body of an input block
MaxBlockEntries == 2

\* loop iterations followed before a run of parseDataBlock is cut off
MaxIter == 4

\* records laid out after the header of an input write batch
MaxBatchRecords == 3

\* put operations in the write batch an input log file is built from
MaxLogPuts == 2

\* key/value pairs in a single-block input table
MaxTableEntries == 3

\* data blocks in an input table of several blocks
MaxTableBlocks == 2

\* files in an input directory
MaxDirFiles == 3

\* parts a decrypted plaintext is made of
MaxPlainParts == 4

\* physical records and other pieces a log file is made of
MaxLogPieces == 3

----------------------------------------------------------------------------
(* JavaScript values.                                                      *)

\* buf[i] outside the buffer
Undefined == -1

\* -2^31: the int32 whose only set bit is bit 31
MinInt32 == -2147483647 - 1

Min(a, b) == IF a < b THEN a ELSE b

Max(a, b) == IF a > b THEN a ELSE b

\* buf[i]
ByteAt(buf, i) == IF i >= 0 /\ i < Len(buf) THEN buf[i + 1] ELSE Undefined

\* byte & 0x7f (undefined converts to 0)
And7f(byte) == IF byte = Undefined THEN 0 ELSE byte % 128

\* byte & 0x80
And80(byte) == IF byte = Undefined THEN 0 ELSE (byte \div 128) * 128

\* a relative index of TypedArray.prototype.subarray, resolved against len
RelIndex(i, len) == IF i < 0 THEN Max(len + i, 0) ELSE Min(i, len)

\* buf.subarray(start, end)
subarray(buf, start, end) ==
    LET s == RelIndex(start, Len(buf))
        e == RelIndex(end, Len(buf))
    IN  IF e <= s THEN <<>> ELSE SubSeq(buf, s + 1, e)

\* result | (group << shift) on int32, for the shifts readVarint uses
\* (0, 7, 14, 21, 28); at 28 the bits above bit 31 are lost and bit 31 is
\* the sign
OrShl(result, group, shift) ==
    IF shift < 28
    THEN result + group * (2 ^ shift)
    ELSE (result + (group % 8) * (2 ^ 28))
         + (IF (group \div 8) % 2 = 1 THEN MinInt32 ELSE 0)

----------------------------------------------------------------------------
(* The state each machine starts in.                                       *)

PdbStart(block) ==
    /\ pdbBlock = block
    /\ pdbRestartsStart = 0
    /\ pdbOffset = 0
    /\ pdbPrevKey = <<>>
    /\ pdbEntries = <<>>
    /\ pdbPc = "entry"
    /\ pdbIters = 0

PlbStart(batch, entries) ==
    /\ plbBatch = batch
    /\ plbEntries = entries
    /\ plbOffset = 0
    /\ plbPc = "entry"
    /\ plbIters = 0
    /\ plbLast = "none"

NoFile == [readable |-> FALSE, data |-> <<>>]

NoLogInput == [puts |-> <<>>, cuts |-> <<>>]

PlfStart(input, file) ==
    /\ plfInput = input
    /\ plfFile = file
    /\ plfData = <<>>
    /\ plfOffset = 0
    /\ plfPending = <<>>
    /\ plfEntries = <<>>
    /\ plfPc = "entry"
    /\ plfLast = "none"

\* no call made yet
NotCalled == [called |-> FALSE, entries |-> <<>>, threw |-> FALSE, hang |-> FALSE]

NoDir == [exists |-> FALSE, files |-> <<>>]

ScanStart(input, dir, pattern) ==
    /\ scanInput = input
    /\ scanDir = dir
    /\ scanPattern = pattern
    /\ scanOut = NotCalled
    /\ findOut = NotCalled

\* the machines a specification does not run
PdbIdle == PdbStart(<<>>)

PlbIdle == PlbStart(<<>>, <<>>)

PlfIdle == PlfStart(NoLogInput, NoFile)

ScanIdle == ScanStart([exists |-> FALSE, files |-> <<>>], NoDir, <<>>)

\* decryptChromiumCookieValue not called yet
DcNotCalled ==
    [called |-> FALSE, threw |-> FALSE, marked |-> FALSE, rawToken |-> <<>>, ret |-> <<>>]

DcStart(encrypted) ==
    /\ dcEncrypted = encrypted
    /\ dcPlain = <<>>
    /\ dcOut = DcNotCalled

DcIdle == DcStart(<<>>)

\* the file of no pieces
NoPieces == [kind |-> "pieces", pieces |-> <<>>, k |-> 0]

LfcStart(input) ==
    /\ lfcInput = input
    /\ lfcOut = NotCalled

LfcIdle == LfcStart(NoPieces)

\* no varint was read
NotRead == [called |-> FALSE, ok |-> FALSE, value |-> 0, n |-> 0, err |-> ""]

RvStart(buf, offset) ==
    /\ rvBuf = buf
    /\ rvOffset = offset
    /\ rvOut = NotRead
    /\ rv64Out = NotRead

RvIdle == RvStart(<<>>, 0)

\* no outcome yet
NoOutcome == [kind |-> "none", error |-> "", teams |-> <<>>]

\* a call that meets nothing: no directory, no entries
NoExtractInput == [exists |-> FALSE, snapshot |-> "fails", find |-> "returns", entries |-> <<>>]

EtStart(input) ==
    /\ etInput = input
    /\ etPc = "entry"
    /\ etSnap = [created |-> FALSE, present |-> FALSE, removals |-> 0]
    /\ etPending = NoOutcome
    /\ etOut = NoOutcome

EtIdle == EtStart(NoExtractInput)

----------------------------------------------------------------------------
(* readVarint                                                              *)

ErrVarintTooLong == "Varint too long"

ErrVarintEnd == "Unexpected end of buffer reading varint"

VarintOk(value, bytesRead) == [ok |-> TRUE, value |-> value, n |-> bytesRead, err |-> ""]

VarintErr(msg) == [ok |-> FALSE, value |-> 0, n |-> 0, err |-> msg]

\* a loop that gives up after the fourth continuation byte
VarintTooLongAfterFour(shift) == shift >= 28

\* line 48: if (shift >= 35) throw
VarintTooLong(shift) == shift >= 35

RECURSIVE readVarintLoop(_, _, _, _, _)
readVarintLoop(buf, offset, result, shift, bytesRead) ==
    IF ~(offset + bytesRead < Len(buf))
    THEN VarintErr(ErrVarintEnd)
    ELSE LET byte == ByteAt(buf, offset + bytesRead)
             r == OrShl(result, And7f(byte), shift)
         IN  IF And80(byte) = 0
             THEN VarintOk(r, bytesRead + 1)
             ELSE IF VarintTooLong(shift + 7)
                  THEN VarintErr(ErrVarintTooLong)
                  ELSE readVarintLoop(buf, offset, r, shift + 7, bytesRead + 1)

readVarint(buf, offset) == readVarintLoop(buf, offset, 0, 0, 0)

----------------------------------------------------------------------------
(* parseDataBlock                                                          *)

Entry(key, value) == [key |-> key, value |-> value]

\* block.readUInt32LE(block.length - 4), as hi * 2^28 + lo
NumRestarts(block) ==
    LET p == Len(block) - 4
        b3 == ByteAt(block, p + 3)
    IN  [hi |-> b3 \div 16,
         lo |-> ByteAt(block, p) + ByteAt(block, p + 1) * 256
                + ByteAt(block, p + 2) * 65536 + (b3 % 16) * 16777216]

\* restartsStart = block.length - 4 - numRestarts * 4, with neg when it is < 0
RestartsStart(block) ==
    LET r == NumRestarts(block)
    IN  IF r.hi > 0 \/ r.lo > (Len(block) - 4) \div 4
        THEN [neg |-> TRUE, val |-> 0]
        ELSE [neg |-> FALSE, val |-> Len(block) - 4 - r.lo * 4]

\* a key rebuilt without its shared prefix
RebuildKeyDeltaOnly(prevKey, shared, keyDelta) == keyDelta

\* Buffer.concat([prevKey.subarray(0, shared), keyDelta])
RebuildKey(prevKey, shared, keyDelta) == subarray(prevKey, 0, shared) \o keyDelta

\* One pass through the body of the while loop: the try block and its catch.
DataBlockIter(block, restartsStart, offset, prevKey, entries) ==
    LET stop(o) == [brk |-> TRUE, offset |-> o, prevKey |-> prevKey, entries |-> entries]
        v1 == readVarint(block, offset)
    IN  IF ~v1.ok THEN stop(offset) ELSE
        LET o1 == offset + v1.n
            v2 == readVarint(block, o1)
        IN  IF ~v2.ok THEN stop(o1) ELSE
            LET o2 == o1 + v2.n
                v3 == readVarint(block, o2)
            IN  IF ~v3.ok THEN stop(o2) ELSE
                LET o3 == o2 + v3.n
                    shared == v1.value
                    nonShared == v2.value
                    valueLen == v3.value
                IN  IF o3 + nonShared + valueLen > restartsStart THEN stop(o3) ELSE
                    LET keyDelta == subarray(block, o3, o3 + nonShared)
                        o4 == o3 + nonShared
                        key == RebuildKey(prevKey, shared, keyDelta)
                        value == subarray(block, o4, o4 + valueLen)
                        o5 == o4 + valueLen
                    IN  [brk |-> FALSE, offset |-> o5, prevKey |-> key,
                         entries |-> Append(entries, Entry(key, value))]

\* The whole loop.  The unrolling is cut after `fuel` passes and then reports
\* hang: the caller never gets a result from such a call.
RECURSIVE parseDataBlockLoop(_, _, _, _, _, _)
parseDataBlockLoop(block, restartsStart, offset, prevKey, entries, fuel) ==
    IF ~(offset < restartsStart)
    THEN [entries |-> entries, hang |-> FALSE]
    ELSE IF fuel = 0
         THEN [entries |-> entries, hang |-> TRUE]
         ELSE LET after(it) ==
                      IF it.brk
                      THEN [entries |-> it.entries, hang |-> FALSE]
                      ELSE parseDataBlockLoop(block, restartsStart, it.offset,
                                              it.prevKey, it.entries, fuel - 1)
              IN  after(DataBlockIter(block, restartsStart, offset, prevKey, entries))

\* parseDataBlock(block).  A pass whose offset only advances consumes at least
\* three bytes, so Len(block) + 1 passes end every such run.
parseDataBlock(block) ==
    IF Len(block) < 4
    THEN [entries |-> <<>>, hang |-> FALSE]
    ELSE LET rs == RestartsStart(block)
         IN  IF rs.neg
             THEN [entries |-> <<>>, hang |-> FALSE]
             ELSE parseDataBlockLoop(block, rs.val, 0, <<>>, <<>>, Len(block) + 1)

----------------------------------------------------------------------------
(* Input blocks for parseDataBlock.                                        *)

\* -8 as a 5-byte varint: bit 31 of the decoded value is set
VarintNeg8 == <<248, 255, 255, 255, 15>>

\* -1 as a 5-byte varint
VarintNeg1 == <<255, 255, 255, 255, 15>>

\* five bytes that all carry the continuation bit
VarintFiveCont == <<255, 255, 255, 255, 255>>

RECURSIVE Flatten(_)
Flatten(seqs) == IF seqs = <<>> THEN <<>> ELSE Head(seqs) \o Flatten(Tail(seqs))

SeqsUpTo(S, n) == UNION {[1..k -> S] : k \in 0..n}

\* nonShared, valueLen and the bytes that follow them
BlockEntryShapes ==
    { <<1>> \o <<1>> \o <<97, 49>>,
      <<1>> \o <<1>> \o <<98, 50>>,
      <<1>> \o <<1>> \o <<97>>,
      VarintNeg8 \o <<1>>,
      <<1>> \o VarintFiveCont \o <<97>> }

BlockEntryShared == { <<0>>, <<1>>, <<2>>, VarintNeg1 }

BlockEntryBytes == { s \o t : s \in BlockEntryShared, t \in BlockEntryShapes }

\* restart array and count: none, one restart, a count larger than the block,
\* and a tail too short to hold a count
BlockTrailers == { <<0, 0, 0, 0>>, <<0, 0, 0, 0, 1, 0, 0, 0>>, <<5, 0, 0, 0>>, <<0>> }

InputBlocks ==
    { Flatten(es) \o t : es \in SeqsUpTo(BlockEntryBytes, MaxBlockEntries), t \in BlockTrailers }

----------------------------------------------------------------------------
(* parseDataBlock, one loop pass per step.                                 *)

InitBlock ==
    /\ \E block \in InputBlocks : PdbStart(block)
    /\ PlbIdle /\ PlfIdle /\ ScanIdle /\ DcIdle /\ LfcIdle /\ RvIdle /\ EtIdle

\* lines 117-133: the length and restart checks
PdbEnter ==
    /\ pdbPc = "entry"
    /\ LET early == Len(pdbBlock) < 4 \/ RestartsStart(pdbBlock).neg
       IN  /\ pdbPc' = IF early THEN "done" ELSE "loop"
           /\ pdbRestartsStart' = IF early THEN 0 ELSE RestartsStart(pdbBlock).val
    /\ UNCHANGED <<pdbBlock, pdbOffset, pdbPrevKey, pdbEntries, pdbIters>>
    /\ UNCHANGED <<plbVars, plfVars, scanVars, dcVars, lfcVars, rvVars, etVars>>

\* lines 135-163: the loop test holds and the body runs once
PdbIterate ==
    /\ pdbPc = "loop"
    /\ pdbOffset < pdbRestartsStart
    /\ pdbIters < MaxIter
    /\ LET it == DataBlockIter(pdbBlock, pdbRestartsStart, pdbOffset, pdbPrevKey, pdbEntries)
       IN  /\ pdbOffset' = it.offset
           /\ pdbPrevKey' = it.prevKey
           /\ pdbEntries' = it.entries
           /\ pdbPc' = IF it.brk THEN "done" ELSE "loop"
    /\ pdbIters' = pdbIters + 1
    /\ UNCHANGED <<pdbBlock, pdbRestartsStart>>
    /\ UNCHANGED <<plbVars, plfVars, scanVars, dcVars, lfcVars, rvVars, etVars>>

\* lines 135, 165: the loop test fails and the entries are returned
PdbReturn ==
    /\ pdbPc = "loop"
    /\ ~(pdbOffset < pdbRestartsStart)
    /\ pdbPc' = "done"
    /\ UNCHANGED <<pdbBlock, pdbRestartsStart, pdbOffset, pdbPrevKey, pdbEntries, pdbIters>>
    /\ UNCHANGED <<plbVars, plfVars, scanVars, dcVars, lfcVars, rvVars, etVars>>

NextBlock == PdbEnter \/ PdbIterate \/ PdbReturn

SpecBlock == InitBlock /\ [][NextBlock]_vars

----------------------------------------------------------------------------
(* readVarint64 and parseBlockHandle                                       *)

\* An unsigned 32-bit number is kept as hi * 2^28 + lo, with lo < 2^28: the
\* first four bytes of a varint give lo and the fifth gives hi.
U32(hi, lo) == [hi |-> hi, lo |-> lo]

\* the or that keeps three bits of the fifth group
OrShlUThreeBits(result, group, shift) ==
    IF shift < 28
    THEN U32(result.hi, result.lo + group * (2 ^ shift))
    ELSE U32(group % 8, result.lo)

\* result | (group << shift) for shift < 32, the bits above bit 31 lost
OrShlU(result, group, shift) ==
    IF shift < 28
    THEN U32(result.hi, result.lo + group * (2 ^ shift))
    ELSE U32(group % 16, result.lo)

\* a + b + k, for the sums of offsets and sizes
WidePlus(a, b, k) ==
    LET lo == a.lo + b.lo + k
    IN  U32(a.hi + b.hi + lo \div (2 ^ 28), lo % (2 ^ 28))

\* w > n, for a length n of a buffer
WideGt(w, n) == w.hi > 0 \/ w.lo > n

\* w as an index of subarray: every index past the end of the buffer acts
\* as its length
WideIndex(w) == IF w.hi > 0 THEN 2 ^ 28 ELSE w.lo

ErrVarint64End == "Unexpected end of buffer reading varint64"

RECURSIVE readVarint64Loop(_, _, _, _, _)
readVarint64Loop(buf, offset, result, shift, bytesRead) ==
    IF ~(offset + bytesRead < Len(buf) /\ bytesRead < 10)
    THEN VarintErr(ErrVarint64End)
    ELSE LET byte == ByteAt(buf, offset + bytesRead)
             r == IF shift < 32 THEN OrShlU(result, And7f(byte), shift) ELSE result
         IN  IF And80(byte) = 0
             THEN VarintOk(r, bytesRead + 1)
             ELSE readVarint64Loop(buf, offset, r, shift + 7, bytesRead + 1)

\* readVarint64(buf, offset): the value is the U32 of result >>> 0
readVarint64(buf, offset) == readVarint64Loop(buf, offset, U32(0, 0), 0, 0)

\* parseBlockHandle(buf, offset); ok is FALSE when a readVarint64 throws
parseBlockHandle(buf, offset) ==
    LET a == readVarint64(buf, offset)
    IN  IF ~a.ok
        THEN [ok |-> FALSE, offset |-> U32(0, 0), size |-> U32(0, 0), bytesRead |-> 0]
        ELSE LET b == readVarint64(buf, offset + a.n)
             IN  IF ~b.ok
                 THEN [ok |-> FALSE, offset |-> U32(0, 0), size |-> U32(0, 0), bytesRead |-> 0]
                 ELSE [ok |-> TRUE, offset |-> a.value, size |-> b.value,
                       bytesRead |-> a.n + b.n]

----------------------------------------------------------------------------
(* decompressBlock                                                         *)

COMPRESSION_NONE == 0

COMPRESSION_SNAPPY == 1

\* The elements of a snappy stream after its length preamble.  Literal
\* elements of up to 60 bytes are decoded; any other element, and a literal
\* that runs past the input, makes the decoder fail.
RECURSIVE SnappyElements(_, _, _)
SnappyElements(buf, offset, out) ==
    IF offset >= Len(buf)
    THEN [ok |-> TRUE, data |-> out]
    ELSE LET tag == ByteAt(buf, offset)
             n == tag \div 4 + 1
         IN  IF tag % 4 # 0 \/ n > 60 \/ offset + 1 + n > Len(buf)
             THEN [ok |-> FALSE, data |-> <<>>]
             ELSE SnappyElements(buf, offset + 1 + n,
                                 out \o subarray(buf, offset + 1, offset + 1 + n))

\* snappyUncompress(compressed, uncompressedLength)
snappyUncompress(compressed, uncompressedLength) ==
    LET pre == readVarint(compressed, 0)
        r == SnappyElements(compressed, pre.n, <<>>)
    IN  IF r.ok /\ Len(r.data) = uncompressedLength THEN r ELSE [ok |-> FALSE, data |-> <<>>]

\* getSnappyUncompressedLength(compressed)
getSnappyUncompressedLength(compressed) == readVarint(compressed, 0)

\* a decompressBlock that takes a block with an unknown tag as uncompressed
decompressBlockLenient(blockData, compressionType) ==
    IF compressionType = COMPRESSION_SNAPPY
    THEN LET len == getSnappyUncompressedLength(blockData)
         IN  IF ~len.ok
             THEN [ok |-> FALSE, data |-> <<>>]
             ELSE snappyUncompress(blockData, len.value)
    ELSE [ok |-> TRUE, data |-> blockData]

\* decompressBlock(blockData, compressionType); ok is FALSE when it throws
decompressBlock(blockData, compressionType) ==
    IF compressionType = COMPRESSION_NONE
    THEN [ok |-> TRUE, data |-> blockData]
    ELSE IF compressionType = COMPRESSION_SNAPPY
         THEN LET len == getSnappyUncompressedLength(blockData)
              IN  IF ~len.ok
                  THEN [ok |-> FALSE, data |-> <<>>]
                  ELSE snappyUncompress(blockData, len.value)
         ELSE [ok |-> FALSE, data |-> <<>>]

----------------------------------------------------------------------------
(* parseSSTable                                                            *)

LEVELDB_MAGIC == <<87, 251, 128, 139, 36, 117, 71, 219>>

\* what a call returns: the entries, whether it threw to its caller, and hang
\* when it never returns
Returned(entries) == [entries |-> entries, threw |-> FALSE, hang |-> FALSE]

Hung == [entries |-> <<>>, threw |-> FALSE, hang |-> TRUE]

\* a magic check that lets every file through
MagicOkAlways(footer) == TRUE

\* lines 189-190: magic.equals(LEVELDB_MAGIC)
MagicOk(footer) == subarray(footer, 40, 48) = LEVELDB_MAGIC

\* a read that takes the byte after the compression type as the type
ReadBlockTypeFromChecksum(data, start, end) ==
    LET blockRaw == subarray(data, WideIndex(start), WideIndex(end))
        compressionType == ByteAt(blockRaw, Len(blockRaw) - 4)
        blockData == subarray(blockRaw, 0, -5)
    IN  decompressBlock(blockData, compressionType)

\* lines 229-232: the raw block of the range, split into data and compression
\* type, and decompressed
ReadBlock(data, start, end) ==
    LET blockRaw == subarray(data, WideIndex(start), WideIndex(end))
        compressionType == ByteAt(blockRaw, Len(blockRaw) - 5)
        blockData == subarray(blockRaw, 0, -5)
    IN  decompressBlock(blockData, compressionType)

\* lines 219-239: the body of the for loop for one index entry: the entries
\* of its data block, or none when the block is skipped
ReadDataBlock(data, indexEntry) ==
    LET none == [entries |-> <<>>, hang |-> FALSE]
        \* lines 234-235: the entries of the decompressed block
        parse(block) == IF ~block.ok THEN none ELSE parseDataBlock(block.data)
        \* lines 225-232: the range check, the read and the decompression
        read(blockHandle, blockEnd) ==
            IF WideGt(blockEnd, Len(data))
            THEN none
            ELSE parse(ReadBlock(data, blockHandle.offset, blockEnd))
        \* lines 221-223: the handle decoded, the end of the block with its trailer
        locate(blockHandle) ==
            IF ~blockHandle.ok
            THEN none
            ELSE read(blockHandle, WidePlus(blockHandle.offset, blockHandle.size, 5))
    IN  locate(parseBlockHandle(indexEntry.value, 0))

\* lines 218-240: the for loop over the index entries
RECURSIVE ReadDataBlocks(_, _, _, _)
ReadDataBlocks(data, indexEntries, i, entries) ==
    IF i > Len(indexEntries)
    THEN Returned(entries)
    ELSE LET push(blockEntries) ==
                 IF blockEntries.hang
                 THEN Hung
                 ELSE ReadDataBlocks(data, indexEntries, i + 1, entries \o blockEntries.entries)
         IN  push(ReadDataBlock(data, indexEntries[i]))

\* parseSSTable(filePath), for the file at that path
parseSSTable(file) ==
    IF ~file.readable THEN Returned(<<>>) ELSE
    LET data == file.data
        footer == subarray(data, -48, Len(data))
        \* lines 218-240: the data blocks the index entries point to
        readBlocks(index) ==
            IF index.hang THEN Hung ELSE ReadDataBlocks(data, index.entries, 1, <<>>)
        \* line 215: the entries of the index block
        parseIndex(indexBlock) ==
            IF ~indexBlock.ok
            THEN Returned(<<>>)
            ELSE readBlocks(parseDataBlock(indexBlock.data))
        \* lines 205-212: the range check, the read and the decompression
        readIndex(indexHandle, indexBlockEnd) ==
            IF WideGt(indexBlockEnd, Len(data) - 48)
            THEN Returned(<<>>)
            ELSE parseIndex(ReadBlock(data, indexHandle.offset, indexBlockEnd))
        \* lines 202-203: the end of the index block with its trailer
        locateIndex(indexHandle) ==
            IF ~indexHandle.ok
            THEN Returned(<<>>)
            ELSE readIndex(indexHandle, WidePlus(indexHandle.offset, indexHandle.size, 5))
        \* lines 198-199: the index handle follows the metaindex handle
        afterMeta(meta) ==
            IF ~meta.ok
            THEN Returned(<<>>)
            ELSE locateIndex(parseBlockHandle(footer, meta.bytesRead))
    IN  IF Len(data) < 48 THEN Returned(<<>>)
        ELSE IF ~MagicOk(footer) THEN Returned(<<>>)
        ELSE afterMeta(parseBlockHandle(footer, 0))

----------------------------------------------------------------------------
(* parseLogBatch                                                           *)

\* a start of the records right after the 8-byte sequence number
BatchRecordsStartAfterSequence(batch) == 8

\* line 328: let offset = 12, past the sequence number and the record count
BatchRecordsStart(batch) == 12

\* a deletion that shadows: the earlier puts of the key are dropped
AfterDeletionShadowing(entries, key) == SelectSeq(entries, LAMBDA e : e.key # key)

\* lines 347-350: what a deletion record leaves of the entries
AfterDeletion(entries, key) == entries

\* an unknown tag that is passed over: the loop goes on with the next byte
AfterUnknownTagSkipped(offset, entries) ==
    [brk |-> FALSE, offset |-> offset, entries |-> entries, kind |-> "unknown"]

\* lines 351-354: an unknown record type breaks out of the loop
AfterUnknownTag(offset, entries) ==
    [brk |-> TRUE, offset |-> offset, entries |-> entries, kind |-> "unknown"]

\* One pass through the body of the while loop: the try block and its catch.
\* kind names the record met: put, delete, unknown (tag) or error (a throw).
LogBatchIter(batch, offset, entries) ==
    LET stop(o, kind) == [brk |-> TRUE, offset |-> o, entries |-> entries, kind |-> kind]
        recordType == ByteAt(batch, offset)
        o0 == offset + 1
    IN  IF recordType = 1
        THEN LET k == readVarint(batch, o0)
             IN  IF ~k.ok THEN stop(o0, "error") ELSE
                 LET o1 == o0 + k.n
                     key == subarray(batch, o1, o1 + k.value)
                     o2 == o1 + k.value
                     v == readVarint(batch, o2)
                 IN  IF ~v.ok THEN stop(o2, "error") ELSE
                     LET o3 == o2 + v.n
                         value == subarray(batch, o3, o3 + v.value)
                         o4 == o3 + v.value
                     IN  [brk |-> FALSE, offset |-> o4,
                          entries |-> Append(entries, Entry(key, value)), kind |-> "put"]
        ELSE IF recordType = 0
        THEN LET k == readVarint(batch, o0)
             IN  IF ~k.ok THEN stop(o0, "error") ELSE
                 [brk |-> FALSE, offset |-> o0 + k.n + k.value,
                  entries |-> AfterDeletion(entries, subarray(batch, o0 + k.n, o0 + k.n + k.value)),
                  kind |-> "delete"]
        ELSE AfterUnknownTag(o0, entries)

\* The whole loop, cut after `fuel` passes (hang) as for parseDataBlock.
RECURSIVE parseLogBatchLoop(_, _, _, _)
parseLogBatchLoop(batch, offset, entries, fuel) ==
    IF ~(offset < Len(batch))
    THEN [entries |-> entries, hang |-> FALSE]
    ELSE IF fuel = 0
         THEN [entries |-> entries, hang |-> TRUE]
         ELSE LET after(it) ==
                      IF it.brk
                      THEN [entries |-> it.entries, hang |-> FALSE]
                      ELSE parseLogBatchLoop(batch, it.offset, it.entries, fuel - 1)
              IN  after(LogBatchIter(batch, offset, entries))

\* parseLogBatch(batch, entries): the entries array after the call.  A pass
\* whose offset only advances consumes at least two bytes.
parseLogBatch(batch, entries) ==
    IF Len(batch) < 12
    THEN [entries |-> entries, hang |-> FALSE]
    ELSE parseLogBatchLoop(batch, BatchRecordsStart(batch), entries, Len(batch) + 1)

----------------------------------------------------------------------------
(* Input write batches for parseLogBatch.                                  *)

\* -6 as a 5-byte varint
VarintNeg6 == <<250, 255, 255, 255, 15>>

\* sequence number (8 bytes) and record count (4 bytes)
BatchHeader(sequence, count) == <<sequence, 0, 0, 0, 0, 0, 0, 0>> \o <<count, 0, 0, 0>>

PutRecord(key, value) == <<1, Len(key)>> \o key \o <<Len(value)>> \o value

DeleteRecord(key) == <<0, Len(key)>> \o key

BatchKeys == { <<97>>, <<98>> }

BatchValues == { <<49>>, <<>> }

BatchRecordBytes ==
    { PutRecord(k, v) : k \in BatchKeys, v \in BatchValues }
    \cup { DeleteRecord(k) : k \in BatchKeys }
    \cup { <<2>>,                          \* an unknown tag
           <<0>> \o VarintNeg6,            \* a deletion whose key length has bit 31 set
           <<1>> \o VarintNeg8 \o <<0>>,   \* a put whose key length has bit 31 set
           <<1>> \o VarintFiveCont,        \* a put whose key length does not decode
           <<1, 1, 97, 2, 49>> }           \* a put whose value runs past what follows

InputBatches ==
    { BatchHeader(1, c) \o Flatten(rs) :
        c \in {0, 1}, rs \in SeqsUpTo(BatchRecordBytes, MaxBatchRecords) }
    \cup { <<>>, <<1, 0, 0, 0, 0>> }

\* entries already in the array parseLogBatch appends to
InputPriorEntries == { <<>>, <<Entry(<<97>>, <<48>>)>> }

----------------------------------------------------------------------------
(* parseLogBatch, one loop pass per step.                                  *)

InitBatch ==
    /\ \E batch \in InputBatches, entries \in InputPriorEntries : PlbStart(batch, entries)
    /\ PdbIdle /\ PlfIdle /\ ScanIdle /\ DcIdle /\ LfcIdle /\ RvIdle /\ EtIdle

\* lines 323-328: the length check
PlbEnter ==
    /\ plbPc = "entry"
    /\ plbPc' = IF Len(plbBatch) < 12 THEN "done" ELSE "loop"
    /\ plbOffset' = IF Len(plbBatch) < 12 THEN 0 ELSE BatchRecordsStart(plbBatch)
    /\ UNCHANGED <<plbBatch, plbEntries, plbIters, plbLast>>
    /\ UNCHANGED <<pdbVars, plfVars, scanVars, dcVars, lfcVars, rvVars, etVars>>

\* lines 330-358: the loop test holds and the body runs once
PlbIterate ==
    /\ plbPc = "loop"
    /\ plbOffset < Len(plbBatch)
    /\ plbIters < MaxIter
    /\ LET it == LogBatchIter(plbBatch, plbOffset, plbEntries)
       IN  /\ plbOffset' = it.offset
           /\ plbEntries' = it.entries
           /\ plbLast' = it.kind
           /\ plbPc' = IF it.brk THEN "done" ELSE "loop"
    /\ plbIters' = plbIters + 1
    /\ UNCHANGED plbBatch
    /\ UNCHANGED <<pdbVars, plfVars, scanVars, dcVars, lfcVars, rvVars, etVars>>

\* line 330: the loop test fails and the call returns
PlbReturn ==
    /\ plbPc = "loop"
    /\ ~(plbOffset < Len(plbBatch))
    /\ plbPc' = "done"
    /\ UNCHANGED <<plbBatch, plbEntries, plbOffset, plbIters, plbLast>>
    /\ UNCHANGED <<pdbVars, plfVars, scanVars, dcVars, lfcVars, rvVars, etVars>>

NextBatch == PlbEnter \/ PlbIterate \/ PlbReturn

SpecBatch == InitBatch /\ [][NextBatch]_vars

----------------------------------------------------------------------------
(* parseLogBatch on batches that differ in their first 12 bytes.           *)

\* sequence numbers and record counts, small and large, and a header of
\* twelve bytes 0xFF
BatchHeaders ==
    { BatchHeader(1, 0), BatchHeader(1, 1), BatchHeader(7, 200), [i \in 1..12 |-> 255] }

HeaderPutPairs == { <<<<97>>, <<49>>>>, <<<<98>>, <<>>>> }

\* puts, a deletion, an unknown tag and a put whose key length does not decode
HeaderRecordBytes ==
    { PutRecord(p[1], p[2]) : p \in HeaderPutPairs }
    \cup { DeleteRecord(<<97>>), <<2>>, <<1>> \o VarintFiveCont }

HeaderBatches ==
    { h \o Flatten(rs) : h \in BatchHeaders, rs \in SeqsUpTo(HeaderRecordBytes, MaxBatchRecords) }

InitHeaders ==
    /\ \E batch \in HeaderBatches : PlbStart(batch, <<>>)
    /\ PdbIdle /\ PlfIdle /\ ScanIdle /\ DcIdle /\ LfcIdle /\ RvIdle /\ EtIdle

SpecHeaders == InitHeaders /\ [][NextBatch]_vars

----------------------------------------------------------------------------
(* parseLogFile                                                            *)

BLOCK_SIZE == 32768

LOG_RECORD_FULL == 1

LOG_RECORD_FIRST == 2

LOG_RECORD_MIDDLE == 3

LOG_RECORD_LAST == 4

\* data.readUInt16LE(offset)
readUInt16LE(data, offset) == ByteAt(data, offset) + ByteAt(data, offset + 1) * 256

\* a corruption boundary that keeps the open accumulator
PendingAfterCorruptKept(pending) == pending

\* line 288: pendingRecord = []
PendingAfterCorrupt(pending) == <<>>

\* a FIRST record that keeps the unfinished accumulator and appends to it
PendingAfterFirstKept(pending, recordData) == Append(pending, recordData)

\* line 299: pendingRecord after a FIRST record
PendingAfterFirst(pending, recordData) == <<recordData>>

\* a MIDDLE record that is dropped although a record is pending
PendingAfterMiddleDropped(pending, recordData) == pending

\* lines 300-303: pendingRecord after a MIDDLE record
PendingAfterMiddle(pending, recordData) ==
    IF Len(pending) > 0 THEN Append(pending, recordData) ELSE pending

\* One pass through the body of the while loop.  branch names the path taken;
\* stop is the break of line 280; hang is a call of parseLogBatch that never
\* returns.
LogFileIter(data, offset, pending, entries) ==
    LET blockOffset == offset % BLOCK_SIZE
        remaining == BLOCK_SIZE - blockOffset
        out(o, p, e, b) == [stop |-> FALSE, hang |-> FALSE, offset |-> o,
                            pending |-> p, entries |-> e, branch |-> b]
        \* after a call of parseLogBatch: pendingRecord = []
        parsed(o, r, b) == [stop |-> FALSE, hang |-> r.hang, offset |-> o,
                            pending |-> <<>>, entries |-> r.entries, branch |-> b]
    IN  IF remaining < 7
        THEN out(offset + remaining, pending, entries, "trailer")
        ELSE IF offset + 7 > Len(data)
        THEN [stop |-> TRUE, hang |-> FALSE, offset |-> offset,
              pending |-> pending, entries |-> entries, branch |-> "short"]
        ELSE LET length == readUInt16LE(data, offset + 4)
                 type == ByteAt(data, offset + 6)
             IN  IF length = 0 \/ offset + 7 + length > Len(data)
                 THEN out(offset + remaining, PendingAfterCorrupt(pending), entries, "corrupt")
                 ELSE LET recordData == subarray(data, offset + 7, offset + 7 + length)
                          o == offset + 7 + length
                      IN  IF type = LOG_RECORD_FULL
                          THEN parsed(o, parseLogBatch(recordData, entries), "full")
                          ELSE IF type = LOG_RECORD_FIRST
                          THEN out(o, PendingAfterFirst(pending, recordData), entries, "first")
                          ELSE IF type = LOG_RECORD_MIDDLE
                          THEN out(o, PendingAfterMiddle(pending, recordData), entries, "middle")
                          ELSE IF type = LOG_RECORD_LAST
                          THEN IF Len(pending) > 0
                               THEN LET fullRecord == Flatten(Append(pending, recordData))
                                    IN  parsed(o, parseLogBatch(fullRecord, entries), "last")
                               ELSE out(o, <<>>, entries, "last")
                          ELSE out(o, pending, entries, "other")

\* The whole loop.  Every pass that continues moves the offset on by at least
\* one byte, so at most Len(data) passes are taken.
RECURSIVE parseLogFileLoop(_, _, _, _)
parseLogFileLoop(data, offset, pending, entries) ==
    IF ~(offset < Len(data))
    THEN [entries |-> entries, hang |-> FALSE]
    ELSE LET after(it) ==
                 IF it.hang
                 THEN [entries |-> entries, hang |-> TRUE]
                 ELSE IF it.stop
                      THEN [entries |-> it.entries, hang |-> FALSE]
                      ELSE parseLogFileLoop(data, it.offset, it.pending, it.entries)
         IN  after(LogFileIter(data, offset, pending, entries))

\* parseLogFile(filePath), for the file at that path: readFile throws when the
\* file is not readable
parseLogFile(file) ==
    IF ~file.readable
    THEN [entries |-> <<>>, hang |-> FALSE]
    ELSE parseLogFileLoop(file.data, 0, <<>>, <<>>)

----------------------------------------------------------------------------
(* Input log files for parseLogFile.                                       *)

\* a write batch of put records, as createTestLogFile lays it out
PutBatch(puts) ==
    BatchHeader(1, Len(puts)) \o Flatten([i \in 1..Len(puts) |-> PutRecord(puts[i][1], puts[i][2])])

\* a physical record: checksum placeholder, length, type, payload
LogRecord(type, payload) ==
    <<0, 0, 0, 0, Len(payload) % 256, Len(payload) \div 256, type>> \o payload

\* the file that holds the batch in one FULL record (cuts = <<>>) or split at
\* the two cuts into a FIRST, a MIDDLE and a LAST record
LogFileBytes(input) ==
    LET payload == PutBatch(input.puts)
    IN  IF input.cuts = <<>>
        THEN LogRecord(LOG_RECORD_FULL, payload)
        ELSE LogRecord(LOG_RECORD_FIRST, SubSeq(payload, 1, input.cuts[1]))
             \o LogRecord(LOG_RECORD_MIDDLE, SubSeq(payload, input.cuts[1] + 1, input.cuts[2]))
             \o LogRecord(LOG_RECORD_LAST, SubSeq(payload, input.cuts[2] + 1, Len(payload)))

LogPutPairs == { <<<<97>>, <<49>>>>, <<<<97, 98>>, <<>>>> }

\* every way to cut a payload of n bytes into three non-empty fragments
PayloadCuts(n) == { c \in (1..(n - 2)) \X (2..(n - 1)) : c[1] < c[2] }

LogInputs ==
    UNION { { [puts |-> ps, cuts |-> cs] : cs \in {<<>>} \cup PayloadCuts(Len(PutBatch(ps))) } :
            ps \in SeqsUpTo(LogPutPairs, MaxLogPuts) }

PutEntries(puts) == [i \in 1..Len(puts) |-> Entry(puts[i][1], puts[i][2])]

----------------------------------------------------------------------------
(* parseLogFile, one loop pass per step.                                   *)

InitLog ==
    /\ \E input \in LogInputs, readable \in BOOLEAN :
          /\ readable \/ input = NoLogInput
          /\ PlfStart(input, [readable |-> readable, data |-> LogFileBytes(input)])
    /\ PdbIdle /\ PlbIdle /\ ScanIdle /\ DcIdle /\ LfcIdle /\ RvIdle /\ EtIdle

\* lines 254-265: the file is read
PlfRead ==
    /\ plfPc = "entry"
    /\ plfPc' = IF plfFile.readable THEN "loop" ELSE "done"
    /\ plfData' = IF plfFile.readable THEN plfFile.data ELSE <<>>
    /\ UNCHANGED <<plfInput, plfFile, plfOffset, plfPending, plfEntries, plfLast>>
    /\ UNCHANGED <<pdbVars, plbVars, scanVars, dcVars, lfcVars, rvVars, etVars>>

\* lines 267-312: the loop test holds and the body runs once
PlfIterate ==
    /\ plfPc = "loop"
    /\ plfOffset < Len(plfData)
    /\ LET pass(it) ==
               /\ plfOffset' = it.offset
               /\ plfPending' = it.pending
               /\ plfEntries' = it.entries
               /\ plfLast' = it.branch
               /\ plfPc' = IF it.hang THEN "hung" ELSE IF it.stop THEN "done" ELSE "loop"
       IN  pass(LogFileIter(plfData, plfOffset, plfPending, plfEntries))
    /\ UNCHANGED <<plfInput, plfFile, plfData>>
    /\ UNCHANGED <<pdbVars, plbVars, scanVars, dcVars, lfcVars, rvVars, etVars>>

\* lines 267, 314: the loop test fails and the entries are returned
PlfReturn ==
    /\ plfPc = "loop"
    /\ ~(plfOffset < Len(plfData))
    /\ plfPc' = "done"
    /\ UNCHANGED <<plfInput, plfFile, plfData, plfOffset, plfPending, plfEntries, plfLast>>
    /\ UNCHANGED <<pdbVars, plbVars, scanVars, dcVars, lfcVars, rvVars, etVars>>

NextLog == PlfRead \/ PlfIterate \/ PlfReturn

SpecLog == InitLog /\ [][NextLog]_vars

----------------------------------------------------------------------------
(* readChromiumLevelDB and findKeysContaining                              *)

\* file names are sequences of characters
SuffixLdb == <<".", "l", "d", "b">>

SuffixSst == <<".", "s", "s", "t">>

SuffixLog == <<".", "l", "o", "g">>

\* f.endsWith(suffix)
endsWith(name, suffix) ==
    Len(name) >= Len(suffix)
    /\ SubSeq(name, Len(name) - Len(suffix) + 1, Len(name)) = suffix

\* line 376: the filter of the table files
IsTableName(name) == endsWith(name, SuffixLdb) \/ endsWith(name, SuffixSst)

\* line 383: the filter of the log files
IsLogName(name) == endsWith(name, SuffixLog)

\* lines 377-380: the loop over the table files, from file i on
RECURSIVE ScanTables(_, _, _)
ScanTables(files, i, entries) ==
    IF i > Len(files)
    THEN Returned(entries)
    ELSE LET push(fileEntries) ==
                 IF fileEntries.hang
                 THEN Hung
                 ELSE ScanTables(files, i + 1, entries \o fileEntries.entries)
         IN  push(parseSSTable(files[i]))

\* lines 384-387: the loop over the log files, from file i on
RECURSIVE ScanLogs(_, _, _)
ScanLogs(files, i, entries) ==
    IF i > Len(files)
    THEN Returned(entries)
    ELSE LET push(fileEntries) ==
                 IF fileEntries.hang
                 THEN Hung
                 ELSE ScanLogs(files, i + 1, entries \o fileEntries.entries)
         IN  push(parseLogFile(files[i]))

\* a scan that reads the log files before the table files
readChromiumLevelDBLogsFirst(dir) ==
    IF ~dir.exists THEN Returned(<<>>) ELSE
    LET sstFiles == SelectSeq(dir.files, LAMBDA f : IsTableName(f.name))
        logFiles == SelectSeq(dir.files, LAMBDA f : IsLogName(f.name))
        thenTables(logs) == IF logs.hang THEN Hung ELSE ScanTables(sstFiles, 1, logs.entries)
    IN  thenTables(ScanLogs(logFiles, 1, <<>>))

\* readChromiumLevelDB(dir); readdir throws when the directory does not exist
readChromiumLevelDB(dir) ==
    IF ~dir.exists THEN Returned(<<>>) ELSE
    LET sstFiles == SelectSeq(dir.files, LAMBDA f : IsTableName(f.name))
        logFiles == SelectSeq(dir.files, LAMBDA f : IsLogName(f.name))
        thenLogs(tables) == IF tables.hang THEN Hung ELSE ScanLogs(logFiles, 1, tables.entries)
    IN  thenLogs(ScanTables(sstFiles, 1, <<>>))

\* buf.indexOf(value), the search from offset i on
RECURSIVE IndexOfFrom(_, _, _)
IndexOfFrom(buf, value, i) ==
    IF i + Len(value) > Len(buf)
    THEN -1
    ELSE IF SubSeq(buf, i + 1, i + Len(value)) = value
         THEN i
         ELSE IndexOfFrom(buf, value, i + 1)

\* buf.indexOf(value): an empty value is found at offset 0
indexOf(buf, value) == IF value = <<>> THEN 0 ELSE IndexOfFrom(buf, value, 0)

\* an includes that looks for the value at the start of the buffer only
includesAtStart(buf, value) == subarray(buf, 0, Len(value)) = value

\* buf.includes(value)
includes(buf, value) == indexOf(buf, value) # -1

\* findKeysContaining(dir, substring)
findKeysContaining(dir, substring) ==
    LET filter(allEntries) ==
            IF allEntries.hang
            THEN Hung
            ELSE Returned(SelectSeq(allEntries.entries,
                                    LAMBDA entry : includes(entry.key, substring)))
    IN  filter(readChromiumLevelDB(dir))

----------------------------------------------------------------------------
(* Input tables: createTestSSTable, for one and for several data blocks.   *)

RECURSIVE encodeVarint(_)
encodeVarint(value) ==
    IF value > 127
    THEN <<(value % 128) + 128>> \o encodeVarint(value \div 128)
    ELSE <<value>>

\* the length of the prefix key shares with prevKey, counted from i
RECURSIVE SharedFrom(_, _, _)
SharedFrom(prevKey, key, i) ==
    IF i < Len(prevKey) /\ i < Len(key) /\ prevKey[i + 1] = key[i + 1]
    THEN SharedFrom(prevKey, key, i + 1)
    ELSE i

\* the entries of a data block from pair i on, each key as a delta of the last
RECURSIVE EncodeEntries(_, _, _)
EncodeEntries(pairs, i, prevKey) ==
    IF i > Len(pairs)
    THEN <<>>
    ELSE LET key == pairs[i][1]
             value == pairs[i][2]
             shared == SharedFrom(prevKey, key, 0)
         IN  encodeVarint(shared) \o encodeVarint(Len(key) - shared)
             \o encodeVarint(Len(value)) \o SubSeq(key, shared + 1, Len(key)) \o value
             \o EncodeEntries(pairs, i + 1, key)

\* one restart point at offset 0, and the count 1
OneRestart == <<0, 0, 0, 0, 1, 0, 0, 0>>

BlockContent(pairs) == EncodeEntries(pairs, 1, <<>>) \o OneRestart

\* a snappy stream of literal elements of up to 60 bytes
RECURSIVE SnappyLiterals(_)
SnappyLiterals(bytes) ==
    IF bytes = <<>>
    THEN <<>>
    ELSE LET n == Min(Len(bytes), 60)
         IN  <<(n - 1) * 4>> \o SubSeq(bytes, 1, n)
             \o SnappyLiterals(SubSeq(bytes, n + 1, Len(bytes)))

SnappyCompress(bytes) == encodeVarint(Len(bytes)) \o SnappyLiterals(bytes)

\* A data block of the table: its pairs, whether it is stored compressed, and
\* the fault it carries: "none"; "tag", a compression type that is neither 0
\* nor 1; "snappy", a compressed block whose length preamble does not decode;
\* "range", a handle whose size runs past the end of the file; "handle", a
\* handle that does not decode.
TableBlock(pairs, snappy, fault) == [pairs |-> pairs, snappy |-> snappy, fault |-> fault]

\* the bytes stored for the block, before the 5-byte trailer
StoredBytes(b) ==
    IF b.fault = "snappy"
    THEN VarintFiveCont \o BlockContent(b.pairs)
    ELSE IF b.snappy THEN SnappyCompress(BlockContent(b.pairs)) ELSE BlockContent(b.pairs)

\* compression type and the checksum placeholder
BlockTrailer(b) ==
    <<IF b.fault = "tag" THEN 2
      ELSE IF b.snappy \/ b.fault = "snappy" THEN COMPRESSION_SNAPPY ELSE COMPRESSION_NONE,
      0, 0, 0, 0>>

\* the value of the block's index entry: its handle
HandleBytes(b, offset) ==
    IF b.fault = "handle"
    THEN <<128>>
    ELSE encodeVarint(offset)
         \o (IF b.fault = "range" THEN VarintNeg1 ELSE encodeVarint(Len(StoredBytes(b))))

LastKey(pairs) == IF pairs = <<>> THEN <<>> ELSE pairs[Len(pairs)][1]

\* an entry of the index block: shared = 0, the last key of the block, its handle
IndexEntryBytes(key, handle) ==
    encodeVarint(0) \o encodeVarint(Len(key)) \o encodeVarint(Len(handle)) \o key \o handle

\* the data blocks from block i on, laid out from the end of `body`, with the
\* entries of the index block
RECURSIVE LayBlocks(_, _, _, _)
LayBlocks(blocks, i, body, index) ==
    IF i > Len(blocks)
    THEN [body |-> body, index |-> index]
    ELSE LayBlocks(blocks, i + 1,
                   body \o StoredBytes(blocks[i]) \o BlockTrailer(blocks[i]),
                   index \o IndexEntryBytes(LastKey(blocks[i].pairs),
                                            HandleBytes(blocks[i], Len(body))))

Zeros(n) == [i \in 1..n |-> 0]

\* the table file: data blocks, index block, empty metaindex block, footer
TableBytes(blocks) ==
    LET laid == LayBlocks(blocks, 1, <<>>, <<>>)
        indexBlockContent == laid.index \o OneRestart
        indexBlock == indexBlockContent \o <<0, 0, 0, 0, 0>>
        metaindexBlock == OneRestart \o <<0, 0, 0, 0, 0>>
        metaindexHandle == encodeVarint(Len(laid.body) + Len(indexBlock))
                           \o encodeVarint(Len(OneRestart))
        indexHandle == encodeVarint(Len(laid.body)) \o encodeVarint(Len(indexBlockContent))
        footerContent == metaindexHandle \o indexHandle
        footer == footerContent \o Zeros(40 - Len(footerContent)) \o LEVELDB_MAGIC
    IN  laid.body \o indexBlock \o metaindexBlock \o footer

\* What is done to the bytes of a file: "none"; "magic", byte n of the
\* 8-byte trailer is changed; "short", only the first n bytes are kept;
\* "zeros", the file is n zero bytes; "unreadable", readFile throws.
Damage(kind, n) == [kind |-> kind, n |-> n]

Damaged(bytes, damage) ==
    IF damage.kind = "magic"
    THEN [i \in 1..Len(bytes) |->
            IF i = Len(bytes) - 8 + damage.n + 1 THEN (bytes[i] + 1) % 256 ELSE bytes[i]]
    ELSE IF damage.kind = "short" THEN SubSeq(bytes, 1, Min(damage.n, Len(bytes)))
    ELSE IF damage.kind = "zeros" THEN Zeros(damage.n)
    ELSE bytes

\* A file of an input directory: its name, its kind ("table", "log" or
\* "other"), the blocks of a table or the puts of a log, and its damage.
TableFile(name, blocks, damage) ==
    [name |-> name, kind |-> "table", blocks |-> blocks, log |-> NoLogInput, damage |-> damage]

LogFile(name, log) ==
    [name |-> name, kind |-> "log", blocks |-> <<>>, log |-> log, damage |-> Damage("none", 0)]

\* the file on disk
FileOf(desc) ==
    [name |-> desc.name,
     readable |-> desc.damage.kind # "unreadable",
     data |-> Damaged(IF desc.kind = "log" THEN LogFileBytes(desc.log)
                      ELSE TableBytes(desc.blocks), desc.damage)]

DirOf(input) ==
    [exists |-> input.exists, files |-> [i \in 1..Len(input.files) |-> FileOf(input.files[i])]]

\* the pairs written into the blocks that carry no fault, block after block
RECURSIVE SoundPairs(_, _)
SoundPairs(blocks, i) ==
    IF i > Len(blocks)
    THEN <<>>
    ELSE (IF blocks[i].fault = "none" THEN PutEntries(blocks[i].pairs) ELSE <<>>)
         \o SoundPairs(blocks, i + 1)

\* the pairs written into the file
Written(desc) ==
    IF desc.kind = "log" THEN PutEntries(desc.log.puts) ELSE SoundPairs(desc.blocks, 1)

Name000001Ldb == <<"0", "0", "0", "0", "0", "1", ".", "l", "d", "b">>

Name000003Sst == <<"0", "0", "0", "0", "0", "3", ".", "s", "s", "t">>

Name000002Log == <<"0", "0", "0", "0", "0", "2", ".", "l", "o", "g">>

Name000004Log == <<"0", "0", "0", "0", "0", "4", ".", "l", "o", "g">>

NameCurrent == <<"C", "U", "R", "R", "E", "N", "T">>

NameLdbBak == <<"7", ".", "l", "d", "b", ".", "b", "a", "k">>

NoDamage == Damage("none", 0)

\* the last pair has a value whose length takes a varint of two bytes
TablePairs ==
    { <<<<97>>, <<49>>>>, <<<<97, 98>>, <<50>>>>, <<<<98>>, <<51>>>>, <<<<98, 99>>, Zeros(130)>> }

\* single-block, uncompressed tables
SingleBlockTables ==
    { <<TableBlock(pairs, FALSE, "none")>> : pairs \in SeqsUpTo(TablePairs, MaxTableEntries) }

BlockPairs == { <<<<<<97>>, <<49>>>>, <<<<97, 98>>, <<50>>>>>>, <<<<<<98>>, <<51>>>>>> }

TableBlocks ==
    { TableBlock(pairs, FALSE, fault) :
        pairs \in BlockPairs, fault \in {"none", "tag", "snappy", "range", "handle"} }
    \cup { TableBlock(pairs, TRUE, "none") : pairs \in BlockPairs }

\* tables of several blocks, sound and faulty
SeveralBlockTables == SeqsUpTo(TableBlocks, MaxTableBlocks)

FileDamages ==
    { Damage("magic", n) : n \in 0..7 }
    \cup { Damage("short", n) : n \in {0, 20, 47} }
    \cup { Damage("zeros", 100), Damage("unreadable", 0) }

\* the directories of one table file, and the directory that does not exist
TableDirInputs ==
    { [exists |-> TRUE, files |-> <<TableFile(name, blocks, NoDamage)>>] :
        name \in {Name000001Ldb, Name000003Sst},
        blocks \in SingleBlockTables \cup SeveralBlockTables }
    \cup { [exists |-> TRUE, files |-> <<TableFile(Name000001Ldb, blocks, damage)>>] :
             blocks \in { b \in SingleBlockTables : Len(b[1].pairs) = MaxTableEntries },
             damage \in FileDamages }
    \cup { [exists |-> FALSE, files |-> <<>>] }

\* the files the directories of several files are made of
DirFilePool ==
    { TableFile(Name000001Ldb, <<TableBlock(<<<<<<97>>, <<49>>>>, <<<<97, 98>>, <<50>>>>>>, FALSE, "none")>>, NoDamage),
      TableFile(Name000003Sst, <<TableBlock(<<<<<<98>>, <<51>>>>>>, TRUE, "none")>>, NoDamage),
      LogFile(Name000002Log, [puts |-> <<<<<<97>>, <<49>>>>>>, cuts |-> <<>>]),
      LogFile(Name000004Log, [puts |-> <<<<<<97, 98>>, <<>>>>, <<<<97>>, <<49>>>>>>, cuts |-> <<5, 14>>]),
      [TableFile(NameCurrent, <<TableBlock(<<<<<<99>>, <<52>>>>>>, FALSE, "none")>>, NoDamage)
          EXCEPT !.kind = "other"],
      [TableFile(NameLdbBak, <<TableBlock(<<<<<<100>>, <<53>>>>>>, FALSE, "none")>>, NoDamage)
          EXCEPT !.kind = "other"] }

Injective(seq) == \A i, j \in 1..Len(seq) : seq[i] = seq[j] => i = j

ManyFileDirInputs ==
    { [exists |-> TRUE, files |-> fs] :
        fs \in { t \in SeqsUpTo(DirFilePool, MaxDirFiles) : Injective(t) } }

Patterns == { <<>>, <<97>>, <<98>>, <<97, 98>>, <<98, 97>> }

----------------------------------------------------------------------------
(* The directory scanner: one call per step.                               *)

Called(r) == [called |-> TRUE, entries |-> r.entries, threw |-> r.threw, hang |-> r.hang]

\* directories of one table file
InitTable ==
    /\ \E input \in TableDirInputs, pattern \in {<<97>>, <<98, 97>>} :
          ScanStart(input, DirOf(input), pattern)
    /\ PdbIdle /\ PlbIdle /\ PlfIdle /\ DcIdle /\ LfcIdle /\ RvIdle /\ EtIdle

\* directories of several table, log and other files
InitScan ==
    /\ \E input \in ManyFileDirInputs, pattern \in Patterns :
          ScanStart(input, DirOf(input), pattern)
    /\ PdbIdle /\ PlbIdle /\ PlfIdle /\ DcIdle /\ LfcIdle /\ RvIdle /\ EtIdle

\* readChromiumLevelDB(dir) is called and returns
ReadChromiumLevelDB ==
    /\ ~scanOut.called
    /\ scanOut' = Called(readChromiumLevelDB(scanDir))
    /\ UNCHANGED <<scanInput, scanDir, scanPattern, findOut>>
    /\ UNCHANGED <<pdbVars, plbVars, plfVars, dcVars, lfcVars, rvVars, etVars>>

\* findKeysContaining(dir, substring) is called and returns
FindKeysContaining ==
    /\ ~findOut.called
    /\ findOut' = Called(findKeysContaining(scanDir, scanPattern))
    /\ UNCHANGED <<scanInput, scanDir, scanPattern, scanOut>>
    /\ UNCHANGED <<pdbVars, plbVars, plfVars, dcVars, lfcVars, rvVars, etVars>>

NextScan == ReadChromiumLevelDB \/ FindKeysContaining

SpecTable == InitTable /\ [][NextScan]_vars

SpecScan == InitScan /\ [][NextScan]_vars

----------------------------------------------------------------------------
(* Log files made of arbitrary pieces: sound records, records of a batch   *)
(* that breaks off, headers that are corrupt, and files that reach into a  *)
(* second 32768-byte block.                                                *)

\* the write batch of the put ("ab", "2"), to be split into fragments
FragmentedBatch == PutBatch(<<<<<<97, 98>>, <<50>>>>>>)

FirstFragment == LogRecord(LOG_RECORD_FIRST, SubSeq(FragmentedBatch, 1, 13))

MiddleFragment == LogRecord(LOG_RECORD_MIDDLE, SubSeq(FragmentedBatch, 14, 15))

LastFragment == LogRecord(LOG_RECORD_LAST, SubSeq(FragmentedBatch, 16, Len(FragmentedBatch)))

\* the LAST record that completes the batch right after its FIRST record
LastAfterFirst == LogRecord(LOG_RECORD_LAST, SubSeq(FragmentedBatch, 14, Len(FragmentedBatch)))

\* a FULL record of the put ("a", "1")
FullRecord == LogRecord(LOG_RECORD_FULL, PutBatch(<<<<<<97>>, <<49>>>>>>))

\* a FULL record whose batch holds the put ("b", "2"), a record of the
\* unknown tag 7 and the put ("c", "3")
FullUnknownTag ==
    LogRecord(LOG_RECORD_FULL,
              BatchHeader(1, 3) \o PutRecord(<<98>>, <<50>>) \o <<7>> \o PutRecord(<<99>>, <<51>>))

\* a FULL record whose batch holds the put ("b", "2") and a put whose key
\* length is a varint that breaks off
FullDecodeError ==
    LogRecord(LOG_RECORD_FULL, BatchHeader(1, 2) \o PutRecord(<<98>>, <<50>>) \o <<1, 128>>)

\* a record of the unknown type 5
UnknownTypeRecord == LogRecord(5, <<9>>)

\* a header that declares length 0
ZeroLengthHeader == <<0, 0, 0, 0, 0, 0, LOG_RECORD_FULL>>

\* a header that declares 200 bytes of payload, and two bytes
TooLongRecord == <<0, 0, 0, 0, 200, 0, LOG_RECORD_FULL>> \o <<1, 2>>

LogPieces ==
    { FullRecord, FirstFragment, MiddleFragment, LastFragment, UnknownTypeRecord,
      ZeroLengthHeader, TooLongRecord, FullUnknownTag, FullDecodeError }

\* a FULL record of the put of "a" with a value of n zero bytes
LeadRecord(n) ==
    LogRecord(LOG_RECORD_FULL,
              BatchHeader(1, 1) \o <<1, 1, 97>> \o encodeVarint(n) \o Zeros(n))

\* A file whose FIRST record ends k bytes before the end of the first block:
\* the lead record, the FIRST record, k zero bytes, and in the second block
\* the LAST record and a FULL record.
TrailerFile(k) ==
    LeadRecord(BLOCK_SIZE - 25 - Len(FirstFragment) - k)
    \o FirstFragment \o Zeros(k) \o LastAfterFirst \o FullRecord

\* A file with a header of length 0 in its first block, after a FULL and a
\* FIRST record, and a LAST and a FULL record in its second block.
CorruptThenNextBlock ==
    FullRecord \o FirstFragment \o ZeroLengthHeader
    \o Zeros(BLOCK_SIZE - Len(FullRecord) - Len(FirstFragment) - Len(ZeroLengthHeader))
    \o LastAfterFirst \o FullRecord

\* files of one block
LogPieceFiles == { Flatten(pieces) : pieces \in SeqsUpTo(LogPieces, MaxLogPieces) }

InitPieces ==
    /\ \E data \in LogPieceFiles : PlfStart(NoLogInput, [readable |-> TRUE, data |-> data])
    /\ PdbIdle /\ PlbIdle /\ ScanIdle /\ DcIdle /\ LfcIdle /\ RvIdle /\ EtIdle

SpecPieces == InitPieces /\ [][NextLog]_vars

----------------------------------------------------------------------------
(* parseLogFile as one call, on files of one block and of two.             *)

\* the files: made of up to MaxLogPieces pieces, or a TrailerFile(k), or the
\* CorruptThenNextBlock file
LogCallInputs ==
    { [kind |-> "pieces", pieces |-> pieces, k |-> 0] :
        pieces \in SeqsUpTo(LogPieces, MaxLogPieces) }
    \cup { [kind |-> "trailer", pieces |-> <<>>, k |-> k] : k \in {1, 6, 7} }
    \cup { [kind |-> "corrupt", pieces |-> <<>>, k |-> 0] }

\* the bytes of the file
LogCallBytes(input) ==
    IF input.kind = "trailer" THEN TrailerFile(input.k)
    ELSE IF input.kind = "corrupt" THEN CorruptThenNextBlock
    ELSE Flatten(input.pieces)

InitLogCall ==
    /\ \E input \in LogCallInputs : LfcStart(input)
    /\ PdbIdle /\ PlbIdle /\ PlfIdle /\ ScanIdle /\ DcIdle /\ RvIdle /\ EtIdle

\* parseLogFile(filePath) is called and returns
ParseLogFile ==
    /\ ~lfcOut.called
    /\ LET returns(r) ==
               lfcOut' = [called |-> TRUE, entries |-> r.entries, threw |-> FALSE,
                          hang |-> r.hang]
       IN  returns(parseLogFile([readable |-> TRUE, data |-> LogCallBytes(lfcInput)]))
    /\ UNCHANGED lfcInput
    /\ UNCHANGED <<pdbVars, plbVars, plfVars, scanVars, dcVars, rvVars, etVars>>

NextLogCall == ParseLogFile

SpecLogCall == InitLogCall /\ [][NextLogCall]_vars

----------------------------------------------------------------------------
(* decryptChromiumCookieValue                                              *)

\* the replacement character U+FFFD
ReplacementChar == 65533

\* buf.toString("utf8") from byte i on, as a sequence of code points: the
\* decoder of the Encoding Standard.  needed and seen count the continuation
\* bytes of the sequence under way, cp holds its bits, lower..upper is the
\* range the next byte must lie in.
RECURSIVE Utf8Decode(_, _, _, _, _, _, _)
Utf8Decode(bytes, i, needed, seen, cp, lower, upper) ==
    IF i > Len(bytes)
    THEN IF needed # 0 THEN <<ReplacementChar>> ELSE <<>>
    ELSE LET b == bytes[i]
         IN  IF needed = 0
             THEN IF b <= 127
                  THEN <<b>> \o Utf8Decode(bytes, i + 1, 0, 0, 0, 128, 191)
                  ELSE IF b >= 194 /\ b <= 223
                  THEN Utf8Decode(bytes, i + 1, 1, 0, b % 32, 128, 191)
                  ELSE IF b >= 224 /\ b <= 239
                  THEN Utf8Decode(bytes, i + 1, 2, 0, b % 16,
                                  IF b = 224 THEN 160 ELSE 128, IF b = 237 THEN 159 ELSE 191)
                  ELSE IF b >= 240 /\ b <= 244
                  THEN Utf8Decode(bytes, i + 1, 3, 0, b % 8,
                                  IF b = 240 THEN 144 ELSE 128, IF b = 244 THEN 143 ELSE 191)
                  ELSE <<ReplacementChar>> \o Utf8Decode(bytes, i + 1, 0, 0, 0, 128, 191)
             ELSE IF b < lower \/ b > upper
                  THEN <<ReplacementChar>> \o Utf8Decode(bytes, i, 0, 0, 0, 128, 191)
                  ELSE IF seen + 1 = needed
                       THEN <<cp * 64 + (b % 64)>> \o Utf8Decode(bytes, i + 1, 0, 0, 0, 128, 191)
                       ELSE Utf8Decode(bytes, i + 1, needed, seen + 1, cp * 64 + (b % 64), 128, 191)

\* buf.toString("utf8")
toStringUtf8(bytes) == Utf8Decode(bytes, 1, 0, 0, 0, 128, 191)

\* the value of a hexadecimal digit, -1 for any other character
HexValue(c) ==
    IF c >= 48 /\ c <= 57 THEN c - 48
    ELSE IF c >= 65 /\ c <= 70 THEN c - 55
    ELSE IF c >= 97 /\ c <= 102 THEN c - 87
    ELSE -1

\* the octet of the escape %XX at position k (1-based) of str, -1 when there
\* is no escape there
EscapeAt(str, k) ==
    IF k + 2 > Len(str) \/ str[k] # 37 THEN -1
    ELSE IF HexValue(str[k + 1]) < 0 \/ HexValue(str[k + 2]) < 0 THEN -1
    ELSE HexValue(str[k + 1]) * 16 + HexValue(str[k + 2])

\* the count of bytes of the UTF-8 sequence the octet starts, 0 when it
\* starts none
SequenceLength(octet) ==
    IF octet >= 194 /\ octet <= 223 THEN 2
    ELSE IF octet >= 224 /\ octet <= 239 THEN 3
    ELSE IF octet >= 240 /\ octet <= 244 THEN 4
    ELSE 0

\* decodeURIComponent(str) from position k on; ok is FALSE on a URIError
RECURSIVE UriDecode(_, _)
UriDecode(str, k) ==
    IF k > Len(str)
    THEN [ok |-> TRUE, text |-> <<>>]
    ELSE IF str[k] # 37
    THEN LET rest == UriDecode(str, k + 1)
         IN  [ok |-> rest.ok, text |-> <<str[k]>> \o rest.text]
    ELSE LET octet == EscapeAt(str, k)
             n == IF octet < 128 THEN 1 ELSE SequenceLength(octet)
         IN  IF octet < 0 \/ n = 0
             THEN [ok |-> FALSE, text |-> <<>>]
             ELSE LET octets == [j \in 1..n |-> EscapeAt(str, k + 3 * (j - 1))]
                      chars == IF \E j \in 1..n : octets[j] < 0
                               THEN <<>>
                               ELSE toStringUtf8(octets)
                  IN  IF Len(chars) # 1
                         \/ (chars[1] = ReplacementChar /\ octets # <<239, 191, 189>>)
                      THEN [ok |-> FALSE, text |-> <<>>]
                      ELSE LET rest == UriDecode(str, k + 3 * n)
                           IN  [ok |-> rest.ok, text |-> chars \o rest.text]

\* decodeURIComponent(str)
decodeURIComponent(str) == UriDecode(str, 1)

\* Buffer.from("xoxd-")
Marker == <<120, 111, 120, 100, 45>>

PrefixV10 == <<118, 49, 48>>

PrefixV11 == <<118, 49, 49>>

\* lines 206-207: the ciphertext, without its version prefix
CipherData(encrypted) ==
    LET prefix == toStringUtf8(subarray(encrypted, 0, 3))
    IN  IF prefix = PrefixV10 \/ prefix = PrefixV11
        THEN subarray(encrypted, 3, Len(encrypted))
        ELSE encrypted

\* a token byte test without the upper limit
IsTokenByteNoUpper(b) == ~(b < 33)

\* line 225: the byte does not end the token
IsTokenByte(b) == ~(b < 33 \/ b > 126)

\* lines 222-229: the end of the token that starts at idx
RECURSIVE TokenEnd(_, _)
TokenEnd(plain, end) ==
    IF end < Len(plain) /\ IsTokenByte(ByteAt(plain, end))
    THEN TokenEnd(plain, end + 1)
    ELSE end

\* lines 216-235: what is returned for the plaintext
ExtractToken(plain) ==
    LET idx == indexOf(plain, Marker)
    IN  IF idx = -1
        THEN [called |-> TRUE, threw |-> FALSE, marked |-> FALSE, rawToken |-> <<>>,
              ret |-> toStringUtf8(plain)]
        ELSE LET end == TokenEnd(plain, idx)
                 rawToken == subarray(plain, idx, end)
                 decoded == decodeURIComponent(toStringUtf8(rawToken))
             IN  [called |-> TRUE, threw |-> FALSE, marked |-> TRUE, rawToken |-> rawToken,
                  ret |-> IF decoded.ok THEN decoded.text ELSE toStringUtf8(rawToken)]

DcThrew == [DcNotCalled EXCEPT !.called = TRUE, !.threw = TRUE]

DcEmpty == [DcNotCalled EXCEPT !.called = TRUE]

\* The plaintexts an AES-128-CBC decipher with PKCS7 padding can give for
\* the data: the data is a positive number of 16-byte blocks, and the
\* padding takes 1 to 16 bytes of it.
CanDecryptTo(data, plain) ==
    /\ Len(data) > 0
    /\ Len(data) % 16 = 0
    /\ Len(plain) >= Len(data) - 16
    /\ Len(plain) < Len(data)

----------------------------------------------------------------------------
(* Inputs of decryptChromiumCookieValue.                                   *)

PlainParts ==
    { Marker,
      <<120, 111, 120, 100>>,     \* "xoxd", the marker without its dash
      <<65>>, <<33>>, <<126>>,    \* "A", and the least and greatest token byte
      <<32>>, <<127>>, <<255>>,   \* bytes next to the token range, and 0xFF
      <<37, 52, 49>>,             \* "%41"
      <<37, 67, 51>>,             \* "%C3"
      <<37, 65, 57>> }            \* "%A9"

Plaintexts == { Flatten(parts) : parts \in SeqsUpTo(PlainParts, MaxPlainParts) }

\* ciphertexts of one block, of two blocks, and of no whole block
Ciphertexts == { Zeros(16), Zeros(32), Zeros(7) }

\* the empty value, values of a prefix alone, and ciphertexts with the
\* prefix v10, with the prefix v11, without a prefix, and with an unknown one
EncryptedInputs ==
    { <<>>, PrefixV10, <<118, 49>> }
    \cup { PrefixV10 \o c : c \in Ciphertexts }
    \cup { PrefixV11 \o Zeros(32), Zeros(32), <<118, 50, 48>> \o Zeros(16) }

----------------------------------------------------------------------------
(* decryptChromiumCookieValue is called and returns or throws.             *)

InitDecrypt ==
    /\ \E encrypted \in EncryptedInputs : DcStart(encrypted)
    /\ PdbIdle /\ PlbIdle /\ PlfIdle /\ ScanIdle /\ LfcIdle /\ RvIdle /\ EtIdle

\* lines 202-204: nothing to decrypt
DecryptEmpty ==
    /\ ~dcOut.called
    /\ Len(dcEncrypted) = 0
    /\ dcOut' = DcEmpty
    /\ UNCHANGED <<dcEncrypted, dcPlain>>
    /\ UNCHANGED <<pdbVars, plbVars, plfVars, scanVars, lfcVars, rvVars, etVars>>

\* line 215: the decipher throws (a wrong length, a wrong padding)
DecryptFails ==
    /\ ~dcOut.called
    /\ Len(dcEncrypted) # 0
    /\ dcOut' = DcThrew
    /\ UNCHANGED <<dcEncrypted, dcPlain>>
    /\ UNCHANGED <<pdbVars, plbVars, plfVars, scanVars, lfcVars, rvVars, etVars>>

\* lines 206-235: the decipher gives a plaintext and the token is taken from it
DecryptExtracts ==
    /\ ~dcOut.called
    /\ Len(dcEncrypted) # 0
    /\ \E plain \in Plaintexts :
          /\ CanDecryptTo(CipherData(dcEncrypted), plain)
          /\ dcPlain' = plain
          /\ dcOut' = ExtractToken(plain)
    /\ UNCHANGED dcEncrypted
    /\ UNCHANGED <<pdbVars, plbVars, plfVars, scanVars, lfcVars, rvVars, etVars>>

NextDecrypt == DecryptEmpty \/ DecryptFails \/ DecryptExtracts

SpecDecrypt == InitDecrypt /\ [][NextDecrypt]_vars

----------------------------------------------------------------------------
(* Claims about parseDataBlock.                                            *)

\* C6: parseDataBlock terminates on every block, also when shared, nonShared
\* or valueLen is a 5-byte varint with bit 31 set: a pass of the loop that
\* does not end the parse leaves the read offset strictly further on, so the
\* offset never moves backwards and the loop cannot run forever.
C6_EveryPassAdvances ==
    [][(pdbPc = "loop" /\ pdbPc' = "loop") => pdbOffset' > pdbOffset]_vars

----------------------------------------------------------------------------
(* Claims about parseLogBatch.                                             *)

IsPrefix(s, t) == Len(s) <= Len(t) /\ SubSeq(t, 1, Len(s)) = s

\* the pass just taken met a record of this kind
PlbPassed(kind) == plbIters' = plbIters + 1 /\ plbLast' = kind

\* C7: no shadowing.  No step removes or alters an entry already in the
\* array; a pass over a deletion record leaves the array as it was; a pass
\* that decodes a put record appends exactly one entry, which stays.
C7_NoShadowing ==
    [][/\ IsPrefix(plbEntries, plbEntries')
       /\ PlbPassed("delete") => plbEntries' = plbEntries
       /\ PlbPassed("put") => Len(plbEntries') = Len(plbEntries) + 1]_vars

\* C7 witness: the batch holds a put of a key and right after it a deletion
\* of the same key; the pass just taken met that deletion, and the entry of
\* the put is still in the array.
C7_Witness ==
    /\ plbLast = "delete"
    /\ \E i \in 1..Len(plbEntries) :
          LET recs == PutRecord(plbEntries[i].key, plbEntries[i].value)
                      \o DeleteRecord(plbEntries[i].key)
          IN  /\ plbOffset - Len(recs) >= 12
              /\ subarray(plbBatch, plbOffset - Len(recs), plbOffset) = recs

\* C10: parseLogBatch terminates on every batch buffer: the read offset is
\* strictly greater after every record processed, also when a key or value
\* length is a 5-byte varint with bit 31 set.
C10_EveryRecordAdvances ==
    [][(plbPc = "loop" /\ plbPc' = "loop") => plbOffset' > plbOffset]_vars

----------------------------------------------------------------------------
(* Claims about parseLogFile.                                              *)

\* C2: fragmentation idempotence.  A log file that holds a write batch of P
\* put operations in one FULL record yields exactly the P entries of the
\* puts, in order, and so does the file that holds the same payload split
\* into a non-empty FIRST, MIDDLE and LAST record.
C2_FragmentationIdempotent ==
    (plfPc = "done" /\ plfFile.readable) => plfEntries = PutEntries(plfInput.puts)

\* C2 witness: a file of three fragments has been read to its end and gave
\* the two puts of its batch.
C2_Witness ==
    /\ plfPc = "done"
    /\ plfInput.cuts # <<>>
    /\ plfLast = "last"
    /\ Len(plfInput.puts) = 2
    /\ plfEntries = PutEntries(plfInput.puts)

----------------------------------------------------------------------------
(* Claims about the directory scanner and parseSSTable.                    *)

\* the directory holds one undamaged table file
OneTable(input) ==
    /\ input.exists
    /\ Len(input.files) = 1
    /\ input.files[1].kind = "table"
    /\ input.files[1].damage = NoDamage

\* the directory holds a single-block, uncompressed table file and nothing else
OneSingleBlockTable(input) ==
    /\ OneTable(input)
    /\ Len(input.files[1].blocks) = 1
    /\ input.files[1].blocks[1].fault = "none"
    /\ ~input.files[1].blocks[1].snappy

\* C1: round trip.  For a directory that holds only a single-block,
\* uncompressed table file built from N key/value pairs with shared-prefix key
\* encoding, readChromiumLevelDB returns exactly the N pairs, in input order,
\* each key and value byte for byte.
C1_RoundTrip ==
    (scanOut.called /\ OneSingleBlockTable(scanInput))
    => /\ ~scanOut.hang /\ ~scanOut.threw
       /\ scanOut.entries = PutEntries(scanInput.files[1].blocks[1].pairs)

\* C1 witness: the table of ("a","1"), ("ab","2"), ("b","3"), where "ab"
\* shares one byte with "a", has been read back.
C1_Witness ==
    /\ scanOut.called
    /\ OneSingleBlockTable(scanInput)
    /\ scanInput.files[1].blocks[1].pairs
         = <<<<<<97>>, <<49>>>>, <<<<97, 98>>, <<50>>>>, <<<<98>>, <<51>>>>>>
    /\ scanOut.entries = <<Entry(<<97>>, <<49>>), Entry(<<97, 98>>, <<50>>), Entry(<<98>>, <<51>>)>>

\* the file is shorter than a footer, or its last 8 bytes are not the magic
NoFooter(file) ==
    Len(file.data) < 48 \/ SubSeq(file.data, Len(file.data) - 7, Len(file.data)) # LEVELDB_MAGIC

\* C4: structurally invalid containers yield nothing and raise nothing.  A
\* table file shorter than 48 bytes (also an empty one), or one whose last 8
\* bytes are not the magic, contributes no entry and no exception, and the
\* scan of a directory that does not exist returns the empty list.
C4_InvalidYieldsNothing ==
    (scanOut.called
       /\ (~scanDir.exists
           \/ \A i \in 1..Len(scanDir.files) :
                 scanInput.files[i].kind = "table" /\ NoFooter(scanDir.files[i])))
    => (scanOut.entries = <<>> /\ ~scanOut.threw /\ ~scanOut.hang)

\* C4 witness: a table file that holds pairs and differs from a valid one in
\* the last byte of its magic only has been scanned, and gave nothing.
C4_Witness ==
    /\ scanOut.called
    /\ scanDir.exists
    /\ Len(scanDir.files) = 1
    /\ scanInput.files[1].damage = Damage("magic", 7)
    /\ Written(scanInput.files[1]) # <<>>
    /\ Len(scanDir.files[1].data) >= 48
    /\ scanOut.entries = <<>>

\* C8: parseSSTable never raises to its caller, and a data block whose handle
\* does not decode, whose range runs past the file, whose compression type is
\* neither 0 nor 1 or whose decompression fails is skipped alone: the pairs
\* of every other data block are returned, in index order.
C8_FaultyBlockSkippedAlone ==
    (scanOut.called /\ OneTable(scanInput))
    => /\ ~scanOut.threw /\ ~scanOut.hang
       /\ scanOut.entries = SoundPairs(scanInput.files[1].blocks, 1)

\* C8 witness: a table whose first block carries a fault and whose second
\* block is sound has been read, and gave the pairs of the second block.
C8_Witness ==
    /\ scanOut.called
    /\ OneTable(scanInput)
    /\ Len(scanInput.files[1].blocks) = 2
    /\ scanInput.files[1].blocks[1].fault # "none"
    /\ scanInput.files[1].blocks[2].fault = "none"
    /\ scanOut.entries = PutEntries(scanInput.files[1].blocks[2].pairs)
    /\ scanOut.entries # <<>>

\* what a file of the directory adds to the scan
Contribution(desc) == IF desc.kind = "other" THEN <<>> ELSE Written(desc)

ContributionsOf(descs, kinds) ==
    Flatten([i \in 1..Len(descs) |->
               IF descs[i].kind \in kinds THEN Contribution(descs[i]) ELSE <<>>])

\* C5 as claimed: the scan concatenates the per-file results in the order of
\* the directory listing, also when a log file comes before a table file.
C5_ListingOrder ==
    scanOut.called => scanOut.entries = ContributionsOf(scanInput.files, {"table", "log"})

\* C5 as amended: the scan returns the results of the table files (.ldb,
\* .sst) in the order of the directory listing, followed by the results of
\* the log files (.log) in the order of the directory listing.
C5_TablesThenLogs ==
    scanOut.called
    => scanOut.entries = ContributionsOf(scanInput.files, {"table"})
                         \o ContributionsOf(scanInput.files, {"log"})

\* C5 witness: a log file is listed before a table file, both hold pairs, and
\* the scan returned the pairs of the table before those of the log.
C5_Witness ==
    /\ scanOut.called
    /\ Len(scanInput.files) = 2
    /\ scanInput.files[1].kind = "log"
    /\ scanInput.files[2].kind = "table"
    /\ Written(scanInput.files[1]) # <<>>
    /\ Written(scanInput.files[2]) # <<>>
    /\ scanOut.entries = Written(scanInput.files[2]) \o Written(scanInput.files[1])

\* s occurs in key as a contiguous run of bytes
ContainsRun(key, s) ==
    \E i \in 0..(Len(key) - Len(s)) : SubSeq(key, i + 1, i + Len(s)) = s

\* C3: findKeysContaining(dir, s) returns exactly the entries of
\* readChromiumLevelDB(dir) whose key contains s as a contiguous run of
\* bytes, in the same relative order.
C3_FindIsFilter ==
    (scanOut.called /\ findOut.called /\ ~scanOut.hang)
    => /\ ~findOut.hang /\ ~findOut.threw
       /\ findOut.entries
            = SelectSeq(scanOut.entries, LAMBDA e : ContainsRun(e.key, scanPattern))

\* C3 witness: both calls returned; the pattern of one byte is found inside
\* a key, not at its start, and some entry of the scan is left out.
C3_Witness ==
    /\ scanOut.called /\ findOut.called
    /\ \E i \in 1..Len(findOut.entries) :
          /\ indexOf(findOut.entries[i].key, scanPattern) > 0
    /\ findOut.entries # <<>>
    /\ Len(findOut.entries) < Len(scanOut.entries)

----------------------------------------------------------------------------
(* Claims about decryptChromiumCookieValue.                                *)

\* the marker lies at offset i of the plaintext
MarkerAt(plain, i) == SubSeq(plain, i + 1, i + Len(Marker)) = Marker

HasMarker(plain) == \E i \in 0..(Len(plain) - Len(Marker)) : MarkerAt(plain, i)

\* the offset of the first marker
FirstMarker(plain) ==
    CHOOSE i \in 0..(Len(plain) - Len(Marker)) :
        MarkerAt(plain, i) /\ \A j \in 0..(i - 1) : ~MarkerAt(plain, j)

InTokenRange(b) == b >= 33 /\ b <= 126

\* C9: when the plaintext contains "xoxd-", the candidate token is the
\* longest run of bytes in 0x21..0x7E that starts at the first marker: it
\* begins with the marker and ends before the first byte outside the range
\* or at the end of the plaintext.  When the marker is absent the whole
\* plaintext is returned as text.
C9_TokenIsMaximalRun ==
    (dcOut.called /\ ~dcOut.threw /\ dcEncrypted # <<>>)
    => IF HasMarker(dcPlain)
       THEN LET i == FirstMarker(dcPlain)
                n == Len(dcOut.rawToken)
            IN  /\ dcOut.marked
                /\ dcOut.rawToken = SubSeq(dcPlain, i + 1, i + n)
                /\ IsPrefix(Marker, dcOut.rawToken)
                /\ \A k \in 1..n : InTokenRange(dcOut.rawToken[k])
                /\ (i + n = Len(dcPlain) \/ ~InTokenRange(dcPlain[i + n + 1]))
       ELSE /\ ~dcOut.marked
            /\ Len(dcOut.ret) = Len(dcPlain)
            /\ \A k \in 1..Len(dcPlain) :
                  dcOut.ret[k] = IF dcPlain[k] < 128 THEN dcPlain[k] ELSE ReplacementChar

\* C9 witness: the plaintext holds bytes before the marker and the byte 0x7F
\* after the token, and the token was cut out between them.
C9_Witness ==
    /\ dcOut.called /\ dcOut.marked
    /\ FirstMarker(dcPlain) > 0
    /\ Len(dcOut.rawToken) > Len(Marker)
    /\ FirstMarker(dcPlain) + Len(dcOut.rawToken) < Len(dcPlain)
    /\ dcPlain[FirstMarker(dcPlain) + Len(dcOut.rawToken) + 1] = 127

----------------------------------------------------------------------------
(* Claims about the entries of parseDataBlock.                             *)

\* the shared length the entry at the read offset declares, when it decodes
DeclaredShared == readVarint(pdbBlock, pdbOffset)

\* C11: when the entry at the read offset declares a shared length greater
\* than the length of the previous key, the pass ends the parsing: the call
\* is done, no entry is emitted for it, and the entries decoded before it
\* are kept.
C11_SharedBeyondPrevKeyStops ==
    [][(/\ pdbPc = "loop"
        /\ pdbOffset < pdbRestartsStart
        /\ DeclaredShared.ok
        /\ DeclaredShared.value > Len(pdbPrevKey))
       => (pdbPc' = "done" /\ pdbEntries' = pdbEntries)]_vars

----------------------------------------------------------------------------
(* Claims about parseLogFile.                                              *)

FragmentedEntry == Entry(<<97, 98>>, <<50>>)

\* C12: whenever fewer than 7 bytes remain before the next block boundary,
\* the reader skips to the boundary and discards the open fragment
\* accumulator: in a file whose FIRST record ends 1 to 6 bytes before the
\* boundary, the LAST record after the boundary does not complete the
\* sequence, so the put of the fragmented batch is not among the entries.
C12_TrailerSkipDiscards ==
    (lfcOut.called /\ lfcInput.kind = "trailer" /\ lfcInput.k < 7)
    => \A i \in 1..Len(lfcOut.entries) : lfcOut.entries[i] # FragmentedEntry

\* the bytes left before the next block boundary, at the read offset
RemainingInBlock == BLOCK_SIZE - (plfOffset % BLOCK_SIZE)

\* the loop of parseLogFile is about to run a pass
PlfAtPass == plfPc = "loop" /\ plfOffset < Len(plfData)

\* the pass finds a whole header at the read offset
HeaderHere == PlfAtPass /\ RemainingInBlock >= 7 /\ plfOffset + 7 <= Len(plfData)

\* the length and the type the header declares
DeclaredLength == plfData[plfOffset + 5] + 256 * plfData[plfOffset + 6]

DeclaredType == plfData[plfOffset + 7]

\* the pass finds a record whose payload is not empty and lies in the file
RecordHere ==
    /\ HeaderHere
    /\ DeclaredLength > 0
    /\ plfOffset + 7 + DeclaredLength <= Len(plfData)

RecordPayload == SubSeq(plfData, plfOffset + 8, plfOffset + 7 + DeclaredLength)

\* C13: fragment reassembly.  A MIDDLE or LAST record met while no
\* accumulator is open yields no entries and leaves the accumulator closed;
\* a FIRST record leaves an accumulator of its own payload alone, whatever
\* was unfinished before it, and a FULL record leaves none, so no payload of
\* an abandoned sequence is in a batch decoded later; a MIDDLE record
\* appends to an open accumulator; a LAST record decodes the accumulator
\* with its payload and leaves the accumulator empty.
C13_FragmentReassembly ==
    [][RecordHere =>
        /\ (DeclaredType \in {LOG_RECORD_MIDDLE, LOG_RECORD_LAST} /\ plfPending = <<>>)
           => (plfEntries' = plfEntries /\ plfPending' = <<>>)
        /\ DeclaredType = LOG_RECORD_FIRST
           => (plfPending' = <<RecordPayload>> /\ plfEntries' = plfEntries)
        /\ DeclaredType = LOG_RECORD_FULL => plfPending' = <<>>
        /\ (DeclaredType = LOG_RECORD_MIDDLE /\ plfPending # <<>>)
           => (plfPending' = Append(plfPending, RecordPayload) /\ plfEntries' = plfEntries)
        /\ DeclaredType = LOG_RECORD_LAST => plfPending' = <<>>
        /\ (DeclaredType = LOG_RECORD_LAST /\ plfPending # <<>>)
           => plfEntries'
                = parseLogBatch(Flatten(Append(plfPending, RecordPayload)), plfEntries).entries
      ]_vars

\* C13 witness: a FIRST and a MIDDLE record were read, and the FIRST record
\* after them left an accumulator of its own payload only.
C13_Witness ==
    /\ plfData = FirstFragment \o MiddleFragment \o FirstFragment
    /\ plfOffset = Len(plfData)
    /\ plfLast = "first"
    /\ plfPending = <<SubSeq(FragmentedBatch, 1, 13)>>

\* the header at the read offset declares length 0, or a payload that runs
\* past the end of the file
CorruptHere ==
    /\ HeaderHere
    /\ (DeclaredLength = 0 \/ plfOffset + 7 + DeclaredLength > Len(plfData))

\* C14: corruption boundary.  When the header declares length 0, or a length
\* whose payload would run past the end of the file, the reader goes on at
\* the next 32768-byte block boundary, emits nothing for the record,
\* discards the open accumulator and keeps the entries decoded so far.
C14_CorruptionBoundary ==
    [][CorruptHere =>
        /\ plfOffset' = plfOffset + RemainingInBlock
        /\ plfOffset' % BLOCK_SIZE = 0
        /\ plfPc' = "loop"
        /\ plfPending' = <<>>
        /\ plfEntries' = plfEntries
      ]_vars

\* C14 witness: after a FULL record and an open FIRST record, a header of
\* length 0 moved the reader to the block boundary; the entry of the FULL
\* record is kept and the accumulator is gone.
C14_Witness ==
    /\ plfData = FullRecord \o FirstFragment \o ZeroLengthHeader
    /\ plfLast = "corrupt"
    /\ plfOffset = BLOCK_SIZE
    /\ plfPending = <<>>
    /\ plfEntries = <<Entry(<<97>>, <<49>>)>>

----------------------------------------------------------------------------
(* Claims about the header of a write batch.                               *)

\* the records of the batch: what follows its first 12 bytes
RecordArea(batch) == SubSeq(batch, 13, Len(batch))

----------------------------------------------------------------------------
(* Claims about a write batch that breaks off inside a log file.           *)

\* records that hold a whole batch or no batch
BatchPieces == { FullRecord, FullUnknownTag, FullDecodeError, UnknownTypeRecord }

\* the puts of the piece that come before its unknown tag or decode error
PieceEntries(piece) ==
    IF piece = FullRecord THEN <<Entry(<<97>>, <<49>>)>>
    ELSE IF piece \in {FullUnknownTag, FullDecodeError} THEN <<Entry(<<98>>, <<50>>)>>
    ELSE <<>>

\* C16: an unknown record tag or a decode error inside a write batch stops
\* the rest of that batch only.  A file of FULL records gives, record after
\* record, the puts that come before the unknown tag or the decode error of
\* each batch: the puts decoded earlier in a batch are kept, what follows in
\* that batch is dropped, and the records that follow in the file are decoded.
C16_BatchStopsAlone ==
    plfPc = "done"
    => \A ps \in SeqsUpTo(BatchPieces, MaxLogPieces) :
          plfData = Flatten(ps)
          => plfEntries = Flatten([i \in 1..Len(ps) |-> PieceEntries(ps[i])])

\* C16 witness: a batch with an unknown tag, a batch with a decode error and
\* a sound batch were read, and gave one put each.
C16_Witness ==
    /\ plfPc = "done"
    /\ plfData = FullUnknownTag \o FullDecodeError \o FullRecord
    /\ plfEntries = <<Entry(<<98>>, <<50>>), Entry(<<98>>, <<50>>), Entry(<<97>>, <<49>>)>>

----------------------------------------------------------------------------
(* The varint readers called on one buffer.                                *)

\* the longest run of continuation bytes of an input
MaxVarintBytes == 11

\* the i-th continuation byte of the four runs
ContByte(p, i) ==
    IF p = 1 THEN 128
    ELSE IF p = 2 THEN 255
    ELSE IF p = 3 THEN 128 + i
    ELSE IF i % 2 = 1 THEN 129 ELSE 254

ContRun(p, k) == [i \in 1..k |-> ContByte(p, i)]

\* bytes with the high bit clear
VarintTerminators == { 0, 1, 8, 15, 16, 127 }

\* buffers: bytes before offset, a run of continuation bytes, a terminating
\* byte or none, and a byte after it or none
VarintInputs ==
    { [buf |-> pad \o ContRun(p, k) \o term \o tail, offset |-> Len(pad)] :
        pad \in { <<>>, <<200>> },
        p \in 1..4,
        k \in 0..MaxVarintBytes,
        term \in { <<>> } \cup { <<t>> : t \in VarintTerminators },
        tail \in { <<>>, <<255>> } }

InitVarint ==
    /\ \E input \in VarintInputs : RvStart(input.buf, input.offset)
    /\ PdbIdle /\ PlbIdle /\ PlfIdle /\ ScanIdle /\ DcIdle /\ LfcIdle /\ EtIdle

Read(r) == [called |-> TRUE, ok |-> r.ok, value |-> r.value, n |-> r.n, err |-> r.err]

\* readVarint(buf, offset) returns or throws
ReadVarint ==
    /\ ~rvOut.called
    /\ rvOut' = Read(readVarint(rvBuf, rvOffset))
    /\ UNCHANGED <<rvBuf, rvOffset, rv64Out>>
    /\ UNCHANGED <<pdbVars, plbVars, plfVars, scanVars, dcVars, lfcVars, etVars>>

\* readVarint64(buf, offset) returns or throws
ReadVarint64 ==
    /\ ~rv64Out.called
    /\ rv64Out' = Read(readVarint64(rvBuf, rvOffset))
    /\ UNCHANGED <<rvBuf, rvOffset, rvOut>>
    /\ UNCHANGED <<pdbVars, plbVars, plfVars, scanVars, dcVars, lfcVars, etVars>>

NextVarint == ReadVarint \/ ReadVarint64

SpecVarint == InitVarint /\ [][NextVarint]_vars

----------------------------------------------------------------------------
(* Claims about the varint readers.                                        *)

\* the n bytes from offset are in the buffer and have the continuation bit
ContinuationRun(n) ==
    \A i \in 0..(n - 1) : rvOffset + i < Len(rvBuf) /\ rvBuf[rvOffset + i + 1] >= 128

\* the buffer ends behind fewer than limit continuation bytes
EndsWithin(limit) ==
    \E n \in 0..(limit - 1) : ContinuationRun(n) /\ rvOffset + n >= Len(rvBuf)

\* the byte n of the encoding ends it
TerminatedAt(n) ==
    /\ ContinuationRun(n - 1)
    /\ rvOffset + n - 1 < Len(rvBuf)
    /\ rvBuf[rvOffset + n] < 128

\* C17: readVarint consumes between 1 and 5 bytes on success, the last of
\* which has its high bit clear; it fails with the too-long error exactly
\* when the five bytes from offset all have the continuation bit set, and
\* with the truncation error exactly when the buffer ends before a
\* terminating byte is seen within those five bytes.
C17_ConsumptionAndErrors ==
    rvOut.called
    => /\ rvOut.ok => (rvOut.n \in 1..5 /\ TerminatedAt(rvOut.n))
       /\ (~rvOut.ok /\ rvOut.err = ErrVarintTooLong) <=> ContinuationRun(5)
       /\ (~rvOut.ok /\ rvOut.err = ErrVarintEnd) <=> EndsWithin(5)

\* C17 witness: an encoding of five bytes was read.
C17_Witness ==
    /\ rvOut.called /\ rvOut.ok
    /\ rvOut.n = 5
    /\ Len(rvBuf) > rvOffset + 5

\* C18: for every encoding readVarint accepts the returned value is an
\* unsigned integer: it is never negative, also when bit 31 of the decoded
\* value is set.
C18_NeverNegative ==
    (rvOut.called /\ rvOut.ok) => rvOut.value >= 0

\* the 7 bits of byte i of the encoding, 0 behind its last byte
Group(i, n) == IF i < n THEN rvBuf[rvOffset + i + 1] % 128 ELSE 0

\* bits 0..31 of the little-endian base-128 value of the n bytes from offset
Low32(n) ==
    U32(Group(4, n) % 16,
        Group(0, n) + Group(1, n) * 128 + Group(2, n) * 16384 + Group(3, n) * 2097152)

\* C19: readVarint64 accepts the encodings of 1 to 10 bytes and returns bits
\* 0..31 of the decoded value as a non-negative number, the bits 32 and above
\* dropped; it fails when the buffer ends or ten bytes pass without a
\* terminating byte.
C19_Low32OfTenBytes ==
    rv64Out.called
    => /\ \A n \in 1..10 :
            TerminatedAt(n)
            => /\ rv64Out.ok
               /\ rv64Out.n = n
               /\ rv64Out.value = Low32(n)
               /\ rv64Out.value.hi \in 0..15
               /\ rv64Out.value.lo \in 0..(2 ^ 28 - 1)
       /\ (EndsWithin(10) \/ ContinuationRun(10))
            => (~rv64Out.ok /\ rv64Out.err = ErrVarint64End)
       /\ rv64Out.ok => \E n \in 1..10 : TerminatedAt(n)

\* C19 witness: an encoding of ten bytes with bits 28..31 set was read.
C19_Witness ==
    /\ rv64Out.called /\ rv64Out.ok
    /\ rv64Out.n = 10
    /\ rv64Out.value.hi = 15

----------------------------------------------------------------------------
(* Directories whose files carry checksums.                                *)

\* the four checksum bytes written at position `at` of a file; seed 0 gives
\* the placeholder of four zero bytes
Checksum(seed, at) ==
    IF seed = 0
    THEN Zeros(4)
    ELSE <<(seed + at) % 256, (seed * 3 + at) % 256, 255 - (at % 256), seed>>

\* the bytes with the checksum of the seed at each of the positions
Stamp(bytes, positions, seed) ==
    [i \in 1..Len(bytes) |->
        IF \E p \in positions : i - 1 \in p..(p + 3)
        THEN LET p == CHOOSE q \in positions : i - 1 \in q..(q + 3)
             IN  Checksum(seed, p)[i - p]
        ELSE bytes[i]]

\* where block i of the table starts
RECURSIVE BlockStart(_, _)
BlockStart(blocks, i) ==
    IF i = 1 THEN 0 ELSE BlockStart(blocks, i - 1) + Len(StoredBytes(blocks[i - 1])) + 5

\* the positions of the checksums of the block trailers: behind the
\* compression type of every data block, of the index block and of the
\* metaindex block
TableChecksums(blocks) ==
    LET laid == LayBlocks(blocks, 1, <<>>, <<>>)
        indexAt == Len(laid.body)
        metaindexAt == indexAt + Len(laid.index) + Len(OneRestart) + 5
    IN  { BlockStart(blocks, i) + Len(StoredBytes(blocks[i])) + 1 : i \in 1..Len(blocks) }
        \cup { indexAt + Len(laid.index) + Len(OneRestart) + 1,
               metaindexAt + Len(OneRestart) + 1 }

\* the positions of the checksums of the record headers: the first four
\* bytes of every record
LogChecksums(input) ==
    IF input.cuts = <<>>
    THEN { 0 }
    ELSE { 0, 7 + input.cuts[1], 14 + input.cuts[2] }

\* the file on disk, its checksums those of the seed
StampedFileOf(desc, seed) ==
    [name |-> desc.name,
     readable |-> TRUE,
     data |-> IF desc.kind = "log"
              THEN Stamp(LogFileBytes(desc.log), LogChecksums(desc.log), seed)
              ELSE Stamp(TableBytes(desc.blocks), TableChecksums(desc.blocks), seed)]

StampedDirOf(input, seed) ==
    [exists |-> input.exists,
     files |-> [i \in 1..Len(input.files) |-> StampedFileOf(input.files[i], seed)]]

ChecksumSeeds == { 2, 77 }

\* directories of one table of several blocks, and of several files
ChecksumDirInputs ==
    { [exists |-> TRUE, files |-> <<TableFile(Name000001Ldb, blocks, NoDamage)>>] :
        blocks \in SeveralBlockTables }
    \cup ManyFileDirInputs

InitChecksums ==
    /\ \E input \in ChecksumDirInputs, seed \in ChecksumSeeds :
          ScanStart([exists |-> input.exists, files |-> input.files, seed |-> seed],
                    StampedDirOf(input, seed), <<97>>)
    /\ PdbIdle /\ PlbIdle /\ PlfIdle /\ DcIdle /\ LfcIdle /\ RvIdle /\ EtIdle

SpecChecksums == InitChecksums /\ [][NextScan]_vars

\* C20: checksum fields never influence the result.  The scan of a directory
\* gives what the scan of the directory with any other checksums in its block
\* trailers and log record headers gives, the placeholder of zero bytes
\* included, and so does the search for a key.
C20_ChecksumsIgnored ==
    \A seed \in ChecksumSeeds \cup { 0 } :
        /\ scanOut.called
           => scanOut = Called(readChromiumLevelDB(StampedDirOf(scanInput, seed)))
        /\ findOut.called
           => findOut = Called(findKeysContaining(StampedDirOf(scanInput, seed), scanPattern))

\* C20 witness: a directory of a table and a log whose checksums are not the
\* placeholder was scanned, and gave the pairs of both.
C20_Witness ==
    /\ scanOut.called
    /\ Len(scanInput.files) = 2
    /\ scanInput.files[1].kind = "log" /\ scanInput.files[1].log.cuts # <<>>
    /\ scanInput.files[2].kind = "table"
    /\ \A i \in 1..2 : scanDir.files[i].data # DirOf(scanInput).files[i].data
    /\ Len(scanDir.files[1].data) = Len(DirOf(scanInput).files[1].data)
    /\ Len(scanOut.entries) >= 3

----------------------------------------------------------------------------
(* Claims about the end of the walk over a log file.                       *)

\* a FULL record whose batch is one deletion with the key length -6: the
\* offset of parseLogBatch goes back to the tag of the same record
FullBackwardDeletion ==
    LogRecord(LOG_RECORD_FULL, BatchHeader(1, 1) \o <<0>> \o VarintNeg6)

WalkPieces ==
    { FullRecord, FirstFragment, LastFragment, UnknownTypeRecord, ZeroLengthHeader,
      FullBackwardDeletion }

InitWalk ==
    /\ \E pieces \in SeqsUpTo(WalkPieces, MaxLogPieces) :
          PlfStart(NoLogInput, [readable |-> TRUE, data |-> Flatten(pieces)])
    /\ PdbIdle /\ PlbIdle /\ ScanIdle /\ DcIdle /\ LfcIdle /\ RvIdle /\ EtIdle

SpecWalk == InitWalk /\ [][NextLog]_vars

\* C21: the walk over a log file terminates on every file: each pass of the
\* loop either ends the walk or goes on with a strictly greater file offset.
C21_EveryPassEndsOrAdvances ==
    [][plfPc = "loop"
       => \/ plfPc' = "done"
          \/ plfPc' = "loop" /\ plfOffset' > plfOffset]_vars

----------------------------------------------------------------------------
(* Claims about the lengths of a put record.                               *)

\* the key length the record at the offset declares, and where its key starts
PutKeyLen == readVarint(plbBatch, plbOffset + 1)

PutKeyStart == plbOffset + 1 + PutKeyLen.n

\* the value length the record declares, and where its value starts
PutValueLen == readVarint(plbBatch, PutKeyStart + PutKeyLen.value)

PutValueStart == PutKeyStart + PutKeyLen.value + PutValueLen.n

\* the loop is at a put record whose two lengths decode
AtPut ==
    /\ plbPc = "loop"
    /\ plbOffset < Len(plbBatch)
    /\ plbBatch[plbOffset + 1] = 1
    /\ PutKeyLen.ok /\ PutKeyLen.value >= 0
    /\ PutValueLen.ok /\ PutValueLen.value >= 0

\* C22: an entry emitted for a put record has a key of exactly the declared
\* key length and a value of exactly the declared value length, both from
\* inside the batch buffer; a put whose declared key or value runs past the
\* end of the buffer produces no entry.
C22_PutLengthsExact ==
    [][AtPut
       => IF PutValueStart + PutValueLen.value <= Len(plbBatch)
          THEN /\ Len(plbEntries') = Len(plbEntries) + 1
               /\ Len(plbEntries'[Len(plbEntries')].key) = PutKeyLen.value
               /\ Len(plbEntries'[Len(plbEntries')].value) = PutValueLen.value
          ELSE plbEntries' = plbEntries]_vars

----------------------------------------------------------------------------
(* extractTeamsFromSlackLevelDb                                            *)

\* The values JSON.parse gives, as far as the function looks into them: an
\* object is the sequence of its <<name, value>> fields in insertion order.
JsUndefined == [t |-> "undefined", s |-> <<>>, fields |-> <<>>]

JsNull == [t |-> "null", s |-> <<>>, fields |-> <<>>]

JsNumber == [t |-> "number", s |-> <<>>, fields |-> <<>>]

JsString(s) == [t |-> "string", s |-> s, fields |-> <<>>]

JsObject(fields) == [t |-> "object", s |-> <<>>, fields |-> fields]

\* value.name of an object, undefined when it has no such field
Field(value, name) ==
    IF \E i \in 1..Len(value.fields) : value.fields[i][1] = name
    THEN value.fields[CHOOSE i \in 1..Len(value.fields) : value.fields[i][1] = name][2]
    ELSE JsUndefined

\* Object.values(value)
ObjectValues(value) == [i \in 1..Len(value.fields) |-> value.fields[i][2]]

\* lines 46-48: typeof value === "object" && value !== null
isRecord(value) == value.t = "object"

NoTeam == [team |-> FALSE, url |-> <<>>, name |-> JsUndefined, token |-> <<>>]

\* lines 50-61: null unless url and token are strings that are not empty
toDesktopTeam(value) ==
    IF ~isRecord(value)
    THEN NoTeam
    ELSE LET url == Field(value, "url")
             token == Field(value, "token")
             name == Field(value, "name")
         IN  IF url.t # "string" \/ token.t # "string" \/ url.s = <<>> \/ token.s = <<>>
             THEN NoTeam
             ELSE [team |-> TRUE, url |-> url.s,
                   name |-> IF name.t = "string" THEN name ELSE JsUndefined,
                   token |-> token.s]

\* String.prototype.startsWith
startsWith(str, prefix) ==
    Len(str) >= Len(prefix) /\ SubSeq(str, 1, Len(prefix)) = prefix

\* a filter that lets every team through
IsXoxcAlways(team) == TRUE

\* line 163: t.token.startsWith("xoxc-")
IsXoxc(team) == startsWith(team.token, <<"x", "o", "x", "c", "-">>)

\* Array.prototype.filter, from element i on
RECURSIVE FilterTeams(_, _)
FilterTeams(teams, i) ==
    IF i > Len(teams)
    THEN <<>>
    ELSE (IF teams[i].team /\ IsXoxc(teams[i]) THEN <<teams[i]>> ELSE <<>>)
         \o FilterTeams(teams, i + 1)

\* lines 157-163: the teams of the config that carry an xoxc token
TeamsOf(cfg) ==
    LET teamsValue == IF isRecord(cfg) THEN Field(cfg, "teams") ELSE JsUndefined
        teamsObj == IF isRecord(teamsValue) THEN teamsValue ELSE JsObject(<<>>)
        mapped == [i \in 1..Len(teamsObj.fields) |-> toDesktopTeam(ObjectValues(teamsObj)[i])]
    IN  FilterTeams(mapped, 1)

\* A value of the database as the function sees it: its length, and what the
\* JSON.parse attempts of parseLocalConfig give for its bytes (parses is
\* FALSE when every attempt throws).
ConfigValue(length, parses, json) == [length |-> length, parses |-> parses, json |-> json]

\* lines 84-126: parseLocalConfig(raw); ok is FALSE when it throws
parseLocalConfig(raw) ==
    IF raw.length = 0 \/ ~raw.parses
    THEN [ok |-> FALSE, json |-> JsUndefined]
    ELSE [ok |-> TRUE, json |-> raw.json]

LocalConfigV == <<108, 111, 99, 97, 108, 67, 111, 110, 102, 105, 103, 95, 118>>

localConfigV2 == LocalConfigV \o <<50>>

localConfigV3 == LocalConfigV \o <<51>>

ErrNotFound == "Slack LevelDB not found"

ErrSnapshot == "snapshot failed"

ErrFind == "findKeysContaining failed"

ErrNoConfig == "Slack LevelDB did not contain localConfig_v2/v3"

ErrParse == "localConfig not parseable"

ErrNoTokens == "No xoxc tokens found in Slack localConfig"

Threw(msg) == [kind |-> "error", error |-> msg, teams |-> <<>>]

ReturnedTeams(teams) == [kind |-> "teams", error |-> "", teams |-> teams]

\* lines 143-151: the value of the first entry whose key names localConfig_v2
\* or localConfig_v3 and whose value is not empty; found is FALSE for null
RECURSIVE SelectConfig(_, _)
SelectConfig(entries, i) ==
    IF i > Len(entries)
    THEN [found |-> FALSE, value |-> ConfigValue(0, FALSE, JsUndefined)]
    ELSE IF /\ (includes(entries[i].key, localConfigV2) \/ includes(entries[i].key, localConfigV3))
            /\ entries[i].value.length > 0
         THEN [found |-> TRUE, value |-> entries[i].value]
         ELSE SelectConfig(entries, i + 1)

\* lines 136-169: what the try block ends with
TryBlock(input) ==
    LET teamsFound(teams) ==
            IF Len(teams) = 0 THEN Threw(ErrNoTokens) ELSE ReturnedTeams(teams)
        parsed(cfg) == IF ~cfg.ok THEN Threw(ErrParse) ELSE teamsFound(TeamsOf(cfg.json))
        selected(config) ==
            IF ~config.found THEN Threw(ErrNoConfig) ELSE parsed(parseLocalConfig(config.value))
    IN  IF input.find = "throws"
        THEN Threw(ErrFind)
        ELSE selected(SelectConfig(input.entries, 1))

\* a finally block whose failed removal throws in place of the outcome
AfterRemovalThrows(pending, removed) ==
    IF removed THEN pending ELSE Threw("rm failed")

\* lines 170-175: the error of rm is caught and ignored
AfterRemoval(pending, removed) == pending

----------------------------------------------------------------------------
(* Inputs of extractTeamsFromSlackLevelDb.                                 *)

MaxTeams == 2

\* "xoxc-1", "xoxc-", "xoxb-1", "axoxc-1"
Tokens ==
    { <<"x", "o", "x", "c", "-", "1">>, <<"x", "o", "x", "c", "-">>,
      <<"x", "o", "x", "b", "-", "1">>, <<"a", "x", "o", "x", "c", "-", "1">> }

\* what the values of cfg.teams can be: null, and objects with or without a
\* url, with a token that is a string, an empty string or a number
TeamValues ==
    { JsNull,
      JsObject(<<<<"url", JsString(<<"u">>)>>, <<"token", JsString(<<"x", "o", "x", "c", "-", "2">>)>>,
                 <<"name", JsString(<<"n">>)>>>>) }
    \cup { JsObject(<<<<"url", url>>, <<"token", token>>>>) :
             url \in { JsString(<<"u">>), JsUndefined },
             token \in { JsString(t) : t \in Tokens } \cup { JsString(<<>>), JsNumber } }

TeamIds == <<"T1", "T2", "T3", "T4">>

Configs ==
    { JsNull, JsObject(<<>>), JsObject(<<<<"teams", JsString(<<"t">>)>>>>) }
    \cup { JsObject(<<<<"teams", JsObject([i \in 1..Len(ts) |-> <<TeamIds[i], ts[i]>>])>>>>) :
             ts \in SeqsUpTo(TeamValues, MaxTeams) }

\* values that are not empty: one that does not parse, and the configs
ConfigValues ==
    { ConfigValue(5, FALSE, JsUndefined) } \cup { ConfigValue(9, TRUE, c) : c \in Configs }

GoodConfig ==
    ConfigValue(9, TRUE,
                JsObject(<<<<"teams", JsObject(<<<<"T9", JsObject(<<<<"url", JsString(<<"u">>)>>,
                             <<"token", JsString(<<"x", "o", "x", "c", "-", "9">>)>>>>)>>>>)>>>>))

\* entries the loop passes over: a key of localConfig_v1, and an empty value
SkippedEntries ==
    { [key |-> LocalConfigV \o <<49>>, value |-> GoodConfig],
      [key |-> localConfigV2, value |-> ConfigValue(0, FALSE, JsUndefined)] }

SelectedEntries ==
    { [key |-> k, value |-> v] :
        k \in { <<95>> \o localConfigV2, localConfigV3 \o <<95>> }, v \in ConfigValues }

EntryLists ==
    { lead \o sel \o tail :
        lead \in SeqsUpTo(SkippedEntries, 1),
        sel \in { <<>> } \cup { <<e>> : e \in SelectedEntries },
        tail \in { <<>>, <<[key |-> localConfigV2, value |-> GoodConfig]>> } }

\* what a call meets: whether the directory exists, how snapshotLevelDb ends
\* ("clone": cp -cR works; "copy": it fails and fs.cp works; "fails": it
\* throws), how findKeysContaining ends, and the entries it returns
ExtractInputs ==
    { [exists |-> TRUE, snapshot |-> "clone", find |-> "returns", entries |-> es] :
        es \in EntryLists }
    \cup { [exists |-> e, snapshot |-> sn, find |-> f, entries |-> <<>>] :
             e \in BOOLEAN, sn \in {"clone", "copy", "fails"}, f \in {"returns", "throws"} }

----------------------------------------------------------------------------
(* extractTeamsFromSlackLevelDb, step by step.                             *)

InitExtract ==
    /\ \E input \in ExtractInputs : EtStart(input)
    /\ PdbIdle /\ PlbIdle /\ PlfIdle /\ ScanIdle /\ DcIdle /\ LfcIdle /\ RvIdle

\* lines 130-132: existsSync(leveldbDir)
EtCheckDir ==
    /\ etPc = "entry"
    /\ etPc' = IF etInput.exists THEN "snapshot" ELSE "done"
    /\ etOut' = IF etInput.exists THEN etOut ELSE Threw(ErrNotFound)
    /\ UNCHANGED <<etInput, etSnap, etPending>>
    /\ UNCHANGED <<pdbVars, plbVars, plfVars, scanVars, dcVars, lfcVars, rvVars>>

\* line 134 and lines 64-82: snapshotLevelDb returns the copy or throws
EtSnapshot ==
    /\ etPc = "snapshot"
    /\ etPc' = IF etInput.snapshot = "fails" THEN "done" ELSE "try"
    /\ etOut' = IF etInput.snapshot = "fails" THEN Threw(ErrSnapshot) ELSE etOut
    /\ etSnap' = IF etInput.snapshot = "fails"
                 THEN etSnap
                 ELSE [etSnap EXCEPT !.created = TRUE, !.present = TRUE]
    /\ UNCHANGED <<etInput, etPending>>
    /\ UNCHANGED <<pdbVars, plbVars, plfVars, scanVars, dcVars, lfcVars, rvVars>>

\* lines 136-169: the try block returns its teams or throws
EtTry ==
    /\ etPc = "try"
    /\ etPending' = TryBlock(etInput)
    /\ etPc' = "finally"
    /\ UNCHANGED <<etInput, etSnap, etOut>>
    /\ UNCHANGED <<pdbVars, plbVars, plfVars, scanVars, dcVars, lfcVars, rvVars>>

\* lines 170-175: rm removes the snapshot or throws, and the call ends with
\* the outcome of the try block
EtFinally ==
    /\ etPc = "finally"
    /\ \E removed \in BOOLEAN :
          /\ etSnap' = [etSnap EXCEPT !.removals = @ + 1,
                                      !.present = IF removed THEN FALSE ELSE @]
          /\ etOut' = AfterRemoval(etPending, removed)
    /\ etPc' = "done"
    /\ UNCHANGED <<etInput, etPending>>
    /\ UNCHANGED <<pdbVars, plbVars, plfVars, scanVars, dcVars, lfcVars, rvVars>>

NextExtract == EtCheckDir \/ EtSnapshot \/ EtTry \/ EtFinally

SpecExtract == InitExtract /\ [][NextExtract]_vars

----------------------------------------------------------------------------
(* Claims about the snapshot of extractTeamsFromSlackLevelDb.              *)

\* the outcomes the try block can end with
TryOutcomes == { "teams", ErrFind, ErrNoConfig, ErrParse, ErrNoTokens }

OutcomeName(outcome) == IF outcome.kind = "teams" THEN "teams" ELSE outcome.error

\* C23: once the snapshot copy has been created its removal is attempted on
\* every path out of the function, whether it returns teams or throws; the
\* call ends with the result or the error of the try block also when the
\* removal fails; and the teams returned are a non-empty list whose tokens
\* all start with "xoxc-".
C23_SnapshotRemovalAttempted ==
    /\ (etPc = "done" /\ etSnap.created)
       => /\ etSnap.removals = 1
          /\ OutcomeName(etPending) \in TryOutcomes
          /\ etOut = etPending
    /\ (etPc = "done" /\ ~etSnap.created) => (etOut.kind = "error" /\ etSnap.removals = 0)
    /\ etOut.kind = "teams"
       => /\ Len(etOut.teams) > 0
          /\ \A i \in 1..Len(etOut.teams) :
                /\ Len(etOut.teams[i].token) >= 5
                /\ SubSeq(etOut.teams[i].token, 1, 5) = <<"x", "o", "x", "c", "-">>

\* C23 witness: the removal failed, the snapshot is still there, and the call
\* returned the one team with an xoxc token out of two.
C23_Witness ==
    /\ etPc = "done"
    /\ etSnap.created /\ etSnap.present /\ etSnap.removals = 1
    /\ etOut.kind = "teams"
    /\ Len(etOut.teams) = 1
    /\ Len(etInput.entries) = 1
    /\ Len(etInput.entries[1].value.json.fields[1][2].fields) = 2

====
